---- MODULE Spec2Model ----
(***************************************************************************)
(* A model of the XLSX layout planning code of axiomkit                    *)
(* (py/src/axiomkit/io/xlsx/util.py, writer.py, conf.py):                  *)
(*   - the sheet-slice planner generate_sheet_slices,                      *)
(*   - the sheet-name sanitizer and the writer's name de-duplicator,       *)
(*   - the header planners (horizontal merges, vertical runs, borders,     *)
(*     text blank-out) and their composition in XlsxWriter._write_header.  *)
(* Python strings that are sliced or measured (sheet names) are sequences  *)
(* of one-character strings; header cell texts, which are only compared,   *)
(* are plain strings.  Python indices are kept 0-based in every value the  *)
(* code returns; TLA+ sequences are 1-based, so cell (r, c) of a grid g is *)
(* g[r + 1][c + 1].                                                        *)
(***************************************************************************)
EXTENDS Integers, Sequences, FiniteSets, TLC

VARIABLES
    slice_pc,          \* "idle" | "done": position of the generate_sheet_slices call
    slice_call,        \* the arguments of the call (and the report's warnings before it)
    slice_ret,         \* what the call returned: [exc, l_sheet_parts]
    report_warnings,   \* SpecXlsxReport.warnings of the write_sheet call
    existing_sheet_names,  \* XlsxWriter._existing_sheet_names
    name_pc,           \* "idle" | "bump": position inside _create_unique_sheet_name
    c_base_name,       \* local of _create_unique_sheet_name
    bump_i,            \* local i of _create_unique_sheet_name
    c_candidate_name,  \* local of _create_unique_sheet_name
    names_returned,    \* history: the set of names _create_unique_sheet_name returned
    n_names_returned,  \* history: how many names it returned
    name_last,         \* history: the name returned last
    hdr_call,          \* the header call made: [op, header_grid, if_merge]
    hdr_exc,           \* "none", or the exception the call raised
    hdr_grid,          \* the grid object after the call (blank-out mutates it in place)
    hdr_borders,       \* dict (row, col) -> SpecCellBorder planned by the call
    hdr_merges,        \* dict row -> list of SpecSheetHorizontalMerge planned by the call
    hdr_writes,        \* the ws.write_blank / ws.write_string calls of the cell-write pass
    fmt_call,          \* the write_sheet call whose column formats were planned
    fmt_plan,          \* the SpecColumnFormatPlan of the call: [fmts_by_col, fmts_base_by_col]
    ws_pc,             \* position of a write_sheet call: "idle" | "loop" | "header" |
                       \* "body" | "done" | "raised"
    ws_call,           \* the arguments of the write_sheet call
    ws_exc,            \* "none", or the exception write_sheet raised
    ws_header_grid,    \* local l_header_grid of write_sheet
    ws_parts,          \* local l_sheet_parts of write_sheet
    ws_idx,            \* 1-based position of the for loop in l_sheet_parts
    ws_worksheets,     \* the names self.wb.add_worksheet was called with by this call
    ws_report_sheets,  \* inst_report.sheets of the call
    chunk_pc,          \* position of generate_row_chunks: "idle" | "loop" (at the
                       \* while condition) | "yielded" (suspended at yield) | "done"
    chunk_call,        \* the slice and the policy whose rows are written
    chunk_exc,         \* "none", or the exception raised on the way to the data rows
    n_row_cursor,      \* local n_row_cursor of generate_row_chunks
    n_rows_per_chunk,  \* local n_rows_per_chunk of generate_row_chunks
    chunks_yielded,    \* history: the (row_offset, sub-table) pairs yielded so far
    rng_call,          \* the last call of derive_contiguous_ranges: [op, sorted_indices]
    rng_ret,           \* its return value: a sequence of <<start, end>> pairs
    san_call,          \* the last call of sanitize_sheet_name: [op, name]
    san_ret,           \* its return value
    mrg_call,          \* the last call of SpecCellFormat.merge: [op, self, other]
    mrg_ret,           \* its return value
    ov_call,           \* the addons and write options of a write_sheet call: [op, addons, write_options]
    ov_ret,            \* the state of its loop over the addons' column overrides:
                       \* [exc, dict_cols_fmt_overrides, warnings]
    ov_pc,             \* "idle" | "loop" | "done" | "raised"
    ov_idx,            \* the number of addons the loop has gone through
    af_call,           \* the autofit arguments and recorded estimates of a write_sheet call on one slice
    af_widths,         \* the widths set_column was called with, by column; <<>> when none was set
    pr_call,           \* the addons of a write_sheet call whose capability probes are run: [op, addons]
    pr_checks,         \* what check_addon_cell_write_requirement gave for the addons asked, in order
    pr_ret,            \* [exc, b_any_cell_override] of the call
    job_pc,            \* main thread of run_jobs: "idle" | "submitted" | "collect" | "returned" | "raised" | "interrupted"
    job_call,          \* the arguments of the run_jobs call
    job_state,         \* per job: "queued" | "running" | "finished" | "collected" | "cancelled"
    job_runs,          \* per job: how many times fn_worker was started on it
    fin_initial,       \* the futures found finished when as_completed was called, not yet yielded
    fin_queue,         \* the futures finished since, in completion order, not yet yielded
    fail_order,        \* history: the jobs whose worker raised, in the order they failed
    n_done,            \* local n_done of run_jobs
    l_done,            \* local l_done of run_jobs (job ids)
    l_failed,          \* local l_failed of run_jobs (job ids)
    job_exc,           \* what run_jobs raised to its caller: [type |-> "none"] or the exception
    cp_pc,             \* copy_tree: "idle" | "walk_root" | "walk_sub" | "await" | "returned" | "raised"
    cp_call,           \* the arguments of the copy_tree call and the source tree
    cp_fs0,            \* the destination as it was when copy_tree was called
    cp_fs,             \* the destination now: path -> "absent" | "dir" | "old" (a file that was there) | "new" (a copied file)
    cp_futures,        \* destination paths of the submitted shutil.copy2 calls that have not run yet
    cp_kept,           \* whether the sub-directory stayed in _dirnames
    cp_report,         \* counters of the ReportCopyBuilder
    svc_ret,           \* what service.sheet_split.generate_sheet_slices returned for the call in slice_call
    svc_warnings       \* the warnings of the report handed to service.sheet_split.generate_sheet_slices

vars == <<slice_pc, slice_call, slice_ret, report_warnings,
          existing_sheet_names, name_pc, c_base_name, bump_i, c_candidate_name,
          names_returned, n_names_returned, name_last,
          hdr_call, hdr_exc, hdr_grid, hdr_borders, hdr_merges, hdr_writes,
          fmt_call, fmt_plan,
          ws_pc, ws_call, ws_exc, ws_header_grid, ws_parts, ws_idx, ws_worksheets,
          ws_report_sheets,
          chunk_pc, chunk_call, chunk_exc, n_row_cursor, n_rows_per_chunk,
          chunks_yielded,
          rng_call, rng_ret,
          san_call, san_ret,
          mrg_call, mrg_ret,
          ov_call, ov_ret, ov_pc, ov_idx,
          af_call, af_widths,
          pr_call, pr_checks, pr_ret,
          job_pc, job_call, job_state, job_runs, fin_initial, fin_queue, fail_order, n_done, l_done, l_failed, job_exc,
          cp_pc, cp_call, cp_fs0, cp_fs, cp_futures, cp_kept, cp_report,
          svc_ret, svc_warnings>>

slice_vars == <<slice_pc, slice_call, slice_ret, report_warnings>>
name_vars == <<existing_sheet_names, name_pc, c_base_name, bump_i, c_candidate_name,
               names_returned, n_names_returned, name_last>>
hdr_vars == <<hdr_call, hdr_exc, hdr_grid, hdr_borders, hdr_merges, hdr_writes>>
fmt_vars == <<fmt_call, fmt_plan>>
sheet_vars == <<ws_pc, ws_call, ws_exc, ws_header_grid, ws_parts, ws_idx, ws_worksheets,
                ws_report_sheets>>
chunk_vars == <<chunk_pc, chunk_call, chunk_exc, n_row_cursor, n_rows_per_chunk,
                chunks_yielded>>
rng_vars == <<rng_call, rng_ret>>
san_vars == <<san_call, san_ret>>
mrg_vars == <<mrg_call, mrg_ret>>
ov_vars == <<ov_call, ov_ret, ov_pc, ov_idx>>
af_vars == <<af_call, af_widths>>
pr_vars == <<pr_call, pr_checks, pr_ret>>
job_vars == <<job_pc, job_call, job_state, job_runs, fin_initial, fin_queue, fail_order, n_done, l_done, l_failed, job_exc>>
cp_vars == <<cp_pc, cp_call, cp_fs0, cp_fs, cp_futures, cp_kept, cp_report>>
svc_vars == <<svc_ret, svc_warnings>>

\* the variables an action on one part of the writer leaves alone
not_slice_vars == <<name_vars, hdr_vars, fmt_vars, sheet_vars, chunk_vars, rng_vars, san_vars, mrg_vars, ov_vars, af_vars, pr_vars, job_vars, cp_vars, svc_vars>>
not_name_vars == <<slice_vars, hdr_vars, fmt_vars, sheet_vars, chunk_vars, rng_vars, san_vars, mrg_vars, ov_vars, af_vars, pr_vars, job_vars, cp_vars, svc_vars>>
not_hdr_vars == <<slice_vars, name_vars, fmt_vars, sheet_vars, chunk_vars, rng_vars, san_vars, mrg_vars, ov_vars, af_vars, pr_vars, job_vars, cp_vars, svc_vars>>
not_fmt_vars == <<slice_vars, name_vars, hdr_vars, sheet_vars, chunk_vars, rng_vars, san_vars, mrg_vars, ov_vars, af_vars, pr_vars, job_vars, cp_vars, svc_vars>>
not_chunk_vars == <<slice_vars, name_vars, hdr_vars, fmt_vars, sheet_vars, rng_vars, san_vars, mrg_vars, ov_vars, af_vars, pr_vars, job_vars, cp_vars, svc_vars>>
not_rng_vars == <<slice_vars, name_vars, hdr_vars, fmt_vars, sheet_vars, chunk_vars, san_vars, mrg_vars, ov_vars, af_vars, pr_vars, job_vars, cp_vars, svc_vars>>
not_san_vars == <<slice_vars, name_vars, hdr_vars, fmt_vars, sheet_vars, chunk_vars, rng_vars, mrg_vars, ov_vars, af_vars, pr_vars, job_vars, cp_vars, svc_vars>>
not_mrg_vars == <<slice_vars, name_vars, hdr_vars, fmt_vars, sheet_vars, chunk_vars, rng_vars, san_vars, ov_vars, af_vars, pr_vars, job_vars, cp_vars, svc_vars>>
not_ov_vars == <<slice_vars, name_vars, hdr_vars, fmt_vars, sheet_vars, chunk_vars, rng_vars, san_vars, mrg_vars, af_vars, pr_vars, job_vars, cp_vars, svc_vars>>
not_af_vars == <<slice_vars, name_vars, hdr_vars, fmt_vars, sheet_vars, chunk_vars, rng_vars, san_vars, mrg_vars, ov_vars, pr_vars, job_vars, cp_vars, svc_vars>>
not_pr_vars == <<slice_vars, name_vars, hdr_vars, fmt_vars, sheet_vars, chunk_vars, rng_vars, san_vars, mrg_vars, ov_vars, af_vars, job_vars, cp_vars, svc_vars>>
not_job_vars == <<slice_vars, name_vars, hdr_vars, fmt_vars, sheet_vars, chunk_vars, rng_vars, san_vars, mrg_vars, ov_vars, af_vars, pr_vars, cp_vars, svc_vars>>
not_cp_vars == <<slice_vars, name_vars, hdr_vars, fmt_vars, sheet_vars, chunk_vars, rng_vars, san_vars, mrg_vars, ov_vars, af_vars, pr_vars, job_vars, svc_vars>>
not_svc_vars == <<slice_vars, name_vars, hdr_vars, fmt_vars, sheet_vars, chunk_vars, rng_vars, san_vars, mrg_vars, ov_vars, af_vars, pr_vars, job_vars, cp_vars>>
\* write_sheet itself changes the report's warnings and the writer's sheet names
not_sheet_vars == <<slice_pc, slice_call, slice_ret,
                    name_pc, c_base_name, bump_i, c_candidate_name,
                    names_returned, n_names_returned, name_last,
                    hdr_vars, fmt_vars, chunk_vars, rng_vars, san_vars, mrg_vars, ov_vars, af_vars, pr_vars, job_vars, cp_vars, svc_vars>>

----------------------------------------------------------------------------
(* Program constants (conf.py) *)

N_NROWS_EXCEL_MAX == 1048576
N_NCOLS_EXCEL_MAX == 16384
N_LEN_EXCEL_SHEET_NAME_MAX == 31
TUP_EXCEL_ILLEGAL == <<"*", ":", "?", "/", "\\", "[", "]">>

----------------------------------------------------------------------------
(* Bounds of the model *)

\* header heights N_NROWS_EXCEL_MAX - d, d in 1..MaxDataRows, leave d data rows per sheet
MaxDataRows == 3
\* data heights 0..MaxHeightDf
MaxHeightDf == 10
\* narrow tables have 0..MaxWidthSmall columns
MaxWidthSmall == 2
\* wide tables have up to MaxColSlabs full column slabs (plus or minus one column)
MaxColSlabs == 2
\* tall tables have up to MaxRowSlabs full row slabs (plus or minus one row), under
\* headers of 1..MaxLargeHeader rows
MaxRowSlabs == 2
MaxLargeHeader == 2
\* sheet names issued by one writer
MaxIssued == 11
\* iterations of the de-duplication loop that are followed
MaxBump == 20
\* header grids have at most MaxHeaderRows rows, MaxHeaderCols columns and
\* MaxHeaderCells cells
MaxHeaderRows == 5
MaxHeaderCols == 4
MaxHeaderCells == 8
\* tables whose column formats are planned have at most MaxFmtCols columns
MaxFmtCols == 2
\* tables handed to write_sheet have at most MaxSheetRows data rows, explicit
\* headers at most MaxSheetHeaderRows rows
MaxSheetRows == 1
MaxSheetHeaderRows == 2
\* slices written in chunks have up to MaxChunkRows rows (or one of a few thousand),
\* fixed chunk sizes are 0..MaxFixedSize, and the history of a loop keeps at most
\* MaxChunksRecorded chunks
MaxChunkRows == 4
MaxFixedSize == 3
MaxChunksRecorded == 12
\* derive_contiguous_ranges gets indices 0..MaxIndex
MaxIndex == 7
\* sanitize_sheet_name gets every name of up to MaxSanLen characters
MaxSanLen == 2
\* a write_sheet call has up to MaxAddons addons, which override columns 0..MaxOvCol
MaxAddons == 3
MaxOvCol == 1
\* up to MaxEstimates width estimates are recorded per column and source
MaxEstimates == 2
\* a write_sheet call probes up to MaxProbeAddons addons
MaxProbeAddons == 3
\* run_jobs gets up to MaxJobs jobs and 1..MaxWorkers worker threads
MaxJobs == 3
MaxWorkers == 2
\* copy_tree gets depth_limit None or 1..MaxDepthLimit
MaxDepthLimit == 2

----------------------------------------------------------------------------
(* Python builtins used by the planners *)

Min(a, b) == IF a < b THEN a ELSE b
Max(a, b) == IF a > b THEN a ELSE b

\* s[:n] for n >= 0
Take(s, n) == SubSeq(s, 1, Min(Len(s), n))

DigitChars == <<"0", "1", "2", "3", "4", "5", "6", "7", "8", "9">>

\* str(n) of a non-negative int, as the f-strings format it
RECURSIVE Dec(_)
Dec(n) ==
    IF n < 10 THEN <<DigitChars[n + 1]>>
    ELSE Dec(n \div 10) \o <<DigitChars[(n % 10) + 1]>>

----------------------------------------------------------------------------
(* generate_sheet_slices (util.py) *)

\* n_rows_data_max := N_NROWS_EXCEL_MAX - height_header
\* (faulty variant: one data row too many per sheet)
n_rows_data_max_bad(height_header) == N_NROWS_EXCEL_MAX - height_header + 1
n_rows_data_max(height_header) == N_NROWS_EXCEL_MAX - height_header

\* n_col_end = min(width_df, n_col_start + N_NCOLS_EXCEL_MAX)
\* (faulty variant: a column slab is one column narrower than the limit allows)
col_slice_end_bad(width_df, n_col_start) ==
    Min(width_df, n_col_start + N_NCOLS_EXCEL_MAX - 1)
col_slice_end(width_df, n_col_start) ==
    Min(width_df, n_col_start + N_NCOLS_EXCEL_MAX)

\* the column loop, from n_col_start on
RECURSIVE col_slices_from(_, _)
col_slices_from(width_df, n_col_start) ==
    IF n_col_start < width_df
    THEN LET n_col_end == col_slice_end(width_df, n_col_start)
         IN  <<<<n_col_start, n_col_end>>>> \o col_slices_from(width_df, n_col_end)
    ELSE <<>>

\* n_row_end = min(height_df, n_row_start + n_rows_data_max)
\* (faulty variant: the end is not cut to the table's height)
row_slice_end_bad(height_df, n_row_start, rows_max) == n_row_start + rows_max
row_slice_end(height_df, n_row_start, rows_max) ==
    Min(height_df, n_row_start + rows_max)

\* the row loop, from n_row_start on
RECURSIVE row_loop_from(_, _, _)
row_loop_from(height_df, n_row_start, rows_max) ==
    IF n_row_start < height_df
    THEN LET n_row_end == row_slice_end(height_df, n_row_start, rows_max)
         IN  <<<<n_row_start, n_row_end>>>> \o row_loop_from(height_df, n_row_end, rows_max)
    ELSE <<>>

\* the row loop followed by the fallback for 0-row dataframes
row_slices(height_df, rows_max) ==
    LET l_row_slices == row_loop_from(height_df, 0, rows_max)
    IN  IF l_row_slices = <<>> THEN <<<<0, 0>>>> ELSE l_row_slices

\* _create_sheet_identifier(base_name, part_idx_1based)
\* (faulty variant: the base name is not shortened to make room for the suffix)
create_sheet_identifier_bad(base_name, part_idx_1based) ==
    base_name \o <<"_">> \o Dec(part_idx_1based)
create_sheet_identifier(base_name, part_idx_1based) ==
    LET c_sheet_name_suffix == <<"_">> \o Dec(part_idx_1based)
        n_len_base_name_max == N_LEN_EXCEL_SHEET_NAME_MAX - Len(c_sheet_name_suffix)
        c_sheet_name_base == Take(base_name, Max(1, n_len_base_name_max))
    IN  c_sheet_name_base \o c_sheet_name_suffix

\* one SpecSheetSlice of the product
sheet_part(sheet_name, n_parts_total, n_idx_part, col_slice, row_slice) ==
    [sheet_name |-> IF n_parts_total = 1
                    THEN sheet_name
                    ELSE create_sheet_identifier(sheet_name, n_idx_part),
     row_start_inclusive |-> row_slice[1],
     row_end_exclusive |-> row_slice[2],
     col_start_inclusive |-> col_slice[1],
     col_end_exclusive |-> col_slice[2]]

\* the nested loops: for each column slice, for each row slice; ci, ri are the
\* 1-based positions reached in l_col_slices and l_row_slices
RECURSIVE sheet_parts_from(_, _, _, _, _, _)
sheet_parts_from(sheet_name, l_col_slices, l_row_slices, ci, ri, n_idx_part) ==
    IF ci > Len(l_col_slices) THEN <<>>
    ELSE IF ri > Len(l_row_slices)
    THEN sheet_parts_from(sheet_name, l_col_slices, l_row_slices, ci + 1, 1, n_idx_part)
    ELSE <<sheet_part(sheet_name, Len(l_col_slices) * Len(l_row_slices), n_idx_part,
                      l_col_slices[ci], l_row_slices[ri])>>
         \o sheet_parts_from(sheet_name, l_col_slices, l_row_slices, ci, ri + 1,
                             n_idx_part + 1)

\* the same loops with rows outer and columns inner
RECURSIVE sheet_parts_rows_outer(_, _, _, _, _, _)
sheet_parts_rows_outer(sheet_name, l_col_slices, l_row_slices, ci, ri, n_idx_part) ==
    IF ri > Len(l_row_slices) THEN <<>>
    ELSE IF ci > Len(l_col_slices)
    THEN sheet_parts_rows_outer(sheet_name, l_col_slices, l_row_slices, 1, ri + 1,
                                n_idx_part)
    ELSE <<sheet_part(sheet_name, Len(l_col_slices) * Len(l_row_slices), n_idx_part,
                      l_col_slices[ci], l_row_slices[ri])>>
         \o sheet_parts_rows_outer(sheet_name, l_col_slices, l_row_slices, ci + 1, ri,
                                   n_idx_part + 1)

\* the product of the column and row slices, as a list of SpecSheetSlice
\* (faulty variant: rows outer, columns inner)
sheet_parts_bad(sheet_name, l_col_slices, l_row_slices) ==
    sheet_parts_rows_outer(sheet_name, l_col_slices, l_row_slices, 1, 1, 1)
sheet_parts(sheet_name, l_col_slices, l_row_slices) ==
    sheet_parts_from(sheet_name, l_col_slices, l_row_slices, 1, 1, 1)

\* the warning report.warn() records on a split
overflow_warning(n_sheets) == [kind |-> "Excel limit overflow", n_sheets |-> n_sheets]

\* "if height_header <= 0": the header height is rejected
\* (faulty variant: a header height of 0 is accepted)
header_height_rejected_bad(height_header) == height_header < 0
header_height_rejected(height_header) == height_header <= 0

\* "if n_parts_total > 1": the split is reported
\* (faulty variant: a single slice is reported as a split too)
split_is_reported_bad(n_parts_total) == n_parts_total >= 1
split_is_reported(n_parts_total) == n_parts_total > 1

\* generate_sheet_slices: [exc, l_sheet_parts, warnings], warnings being the report's
\* warnings after the call
generate_sheet_slices(height_df, width_df, height_header, sheet_name, warnings) ==
    IF header_height_rejected(height_header)
    THEN [exc |-> "ValueError", l_sheet_parts |-> <<>>, warnings |-> warnings]
    ELSE IF n_rows_data_max(height_header) <= 0
    THEN [exc |-> "ValueError", l_sheet_parts |-> <<>>, warnings |-> warnings]
    ELSE LET l_col_slices == col_slices_from(width_df, 0)
             l_row_slices == row_slices(height_df, n_rows_data_max(height_header))
             n_parts_total == Len(l_col_slices) * Len(l_row_slices)
             l_sheet_parts == sheet_parts(sheet_name, l_col_slices, l_row_slices)
         IN  [exc |-> "none",
              l_sheet_parts |-> l_sheet_parts,
              warnings |-> IF split_is_reported(n_parts_total)
                           THEN Append(warnings, overflow_warning(Len(l_sheet_parts)))
                           ELSE warnings]

----------------------------------------------------------------------------
(* The calls of generate_sheet_slices that are explored *)

\* a name of n characters
Chars(n) == [i \in 1..n |-> IF i % 2 = 1 THEN "a" ELSE "b"]

SliceSheetNames ==
    {<<"B", "a", "s", "e">>}
    \cup {Chars(N_LEN_EXCEL_SHEET_NAME_MAX + d) : d \in {-3, -2, -1, 0, 2}}

\* accepted header heights: 1, and those that leave 1..MaxDataRows data rows per sheet
ValidHeaderHeights == {1} \cup {N_NROWS_EXCEL_MAX - d : d \in 1..MaxDataRows}
\* rejected header heights
InvalidHeaderHeights == {-1, 0, N_NROWS_EXCEL_MAX, N_NROWS_EXCEL_MAX + 1}

WideWidths == {k * N_NCOLS_EXCEL_MAX + d : k \in 1..MaxColSlabs, d \in {-1, 0, 1}}

SmallSliceInputs ==
    [height_df : 0..MaxHeightDf,
     width_df : 0..MaxWidthSmall,
     height_header : ValidHeaderHeights \cup InvalidHeaderHeights,
     sheet_name : SliceSheetNames]

WideSliceInputs ==
    [height_df : {0, 1, MaxDataRows + 1},
     width_df : WideWidths,
     height_header : {N_NROWS_EXCEL_MAX - MaxDataRows},
     sheet_name : {<<"B", "a", "s", "e">>}]

SliceInputs == SmallSliceInputs \cup WideSliceInputs

\* tables of up to MaxRowSlabs full row slabs (plus or minus one row) and of two
\* million rows, under a header of one row or more
LargeHeights(height_header) ==
    {1, 2000000}
    \cup {k * (N_NROWS_EXCEL_MAX - height_header) + d : k \in 1..MaxRowSlabs,
                                                         d \in {-1, 0, 1}}

LargeSliceInputs ==
    UNION {[height_df : LargeHeights(height_header),
            width_df : {1, 5} \cup WideWidths,
            height_header : {height_header},
            sheet_name : {<<"B", "a", "s", "e">>}] :
           height_header \in 1..MaxLargeHeader}

\* a warning write_sheet may have recorded before it plans the slices
dtype_warning == [kind |-> "dtype written as string", n_sheets |-> 0]

SliceIdle ==
    /\ slice_pc = "idle"
    /\ slice_call = [height_df |-> 0, width_df |-> 0, height_header |-> 1,
                     sheet_name |-> <<>>, warnings_before |-> <<>>]
    /\ slice_ret = [exc |-> "none", l_sheet_parts |-> <<>>]

\* write_sheet has built its report and reaches the call of generate_sheet_slices
SliceInit ==
    /\ SliceIdle
    /\ report_warnings \in {<<>>, <<dtype_warning>>}

\* the call l_sheet_parts = generate_sheet_slices(..., report=inst_report), its
\* arguments being one of inputs
GenerateSheetSlicesOf(inputs) ==
    /\ slice_pc = "idle"
    /\ \E inp \in inputs :
          LET r == generate_sheet_slices(inp.height_df, inp.width_df, inp.height_header,
                                         inp.sheet_name, report_warnings)
          IN  /\ slice_call' = [height_df |-> inp.height_df,
                                width_df |-> inp.width_df,
                                height_header |-> inp.height_header,
                                sheet_name |-> inp.sheet_name,
                                warnings_before |-> report_warnings]
              /\ slice_ret' = [exc |-> r.exc, l_sheet_parts |-> r.l_sheet_parts]
              /\ report_warnings' = r.warnings
    /\ slice_pc' = "done"
    /\ UNCHANGED not_slice_vars

\* the call for a table that is small or a few columns wider than a sheet
GenerateSheetSlices == GenerateSheetSlicesOf(SliceInputs)

\* the call for a table of about a million rows or more
GenerateSheetSlicesLarge == GenerateSheetSlicesOf(LargeSliceInputs)

----------------------------------------------------------------------------
(* The second planner, service/sheet_split.py, called next to the one of util.py *)

\* _make_sheet_name(base_name, part_idx_1based)
make_sheet_name(base_name, part_idx_1based) ==
    LET c_sheet_name_suffix == <<"_">> \o Dec(part_idx_1based)
        n_len_base_name_max == N_LEN_EXCEL_SHEET_NAME_MAX - Len(c_sheet_name_suffix)
        c_sheet_name_base == Take(base_name, Max(1, n_len_base_name_max))
    IN  c_sheet_name_base \o c_sheet_name_suffix

\* the row loop of service/sheet_split.py: nothing follows it
service_row_slices(height_df, rows_max) == row_loop_from(height_df, 0, rows_max)

\* the nested loops of service/sheet_split.py: for each column slice, for each
\* row slice
RECURSIVE service_sheet_parts_from(_, _, _, _, _, _)
service_sheet_parts_from(sheet_name, l_col_slices, l_row_slices, ci, ri, n_idx_part) ==
    IF ci > Len(l_col_slices) THEN <<>>
    ELSE IF ri > Len(l_row_slices)
    THEN service_sheet_parts_from(sheet_name, l_col_slices, l_row_slices, ci + 1, 1,
                                  n_idx_part)
    ELSE <<[sheet_name |-> IF Len(l_col_slices) * Len(l_row_slices) = 1
                           THEN sheet_name
                           ELSE make_sheet_name(sheet_name, n_idx_part),
            row_start_inclusive |-> l_row_slices[ri][1],
            row_end_exclusive |-> l_row_slices[ri][2],
            col_start_inclusive |-> l_col_slices[ci][1],
            col_end_exclusive |-> l_col_slices[ci][2]]>>
         \o service_sheet_parts_from(sheet_name, l_col_slices, l_row_slices, ci, ri + 1,
                                     n_idx_part + 1)

\* service.sheet_split.generate_sheet_slices: [exc, l_sheet_parts, warnings]
service_generate_sheet_slices(height_df, width_df, height_header, sheet_name, warnings) ==
    IF height_header <= 0
    THEN [exc |-> "ValueError", l_sheet_parts |-> <<>>, warnings |-> warnings]
    ELSE IF N_NROWS_EXCEL_MAX - height_header <= 0
    THEN [exc |-> "ValueError", l_sheet_parts |-> <<>>, warnings |-> warnings]
    ELSE LET l_col_slices == col_slices_from(width_df, 0)
             l_row_slices == service_row_slices(height_df,
                                                N_NROWS_EXCEL_MAX - height_header)
             n_parts_total == Len(l_col_slices) * Len(l_row_slices)
             l_sheet_parts == service_sheet_parts_from(sheet_name, l_col_slices,
                                                       l_row_slices, 1, 1, 1)
         IN  [exc |-> "none",
              l_sheet_parts |-> l_sheet_parts,
              warnings |-> IF n_parts_total > 1
                           THEN Append(warnings, overflow_warning(Len(l_sheet_parts)))
                           ELSE warnings]

SvcInit ==
    /\ svc_ret = [exc |-> "none", l_sheet_parts |-> <<>>]
    /\ svc_warnings = <<>>

\* both planners are called with the same arguments, each with a report that
\* holds the same warnings
GenerateSheetSlicesBoth ==
    /\ slice_pc = "idle"
    /\ \E inp \in SliceInputs \cup LargeSliceInputs :
          LET r == generate_sheet_slices(inp.height_df, inp.width_df, inp.height_header,
                                         inp.sheet_name, report_warnings)
              q == service_generate_sheet_slices(inp.height_df, inp.width_df,
                                                 inp.height_header, inp.sheet_name,
                                                 report_warnings)
          IN  /\ slice_call' = [height_df |-> inp.height_df,
                                width_df |-> inp.width_df,
                                height_header |-> inp.height_header,
                                sheet_name |-> inp.sheet_name,
                                warnings_before |-> report_warnings]
              /\ slice_ret' = [exc |-> r.exc, l_sheet_parts |-> r.l_sheet_parts]
              /\ report_warnings' = r.warnings
              /\ svc_ret' = [exc |-> q.exc, l_sheet_parts |-> q.l_sheet_parts]
              /\ svc_warnings' = q.warnings
    /\ slice_pc' = "both done"
    /\ UNCHANGED <<name_vars, hdr_vars, fmt_vars, sheet_vars, chunk_vars, rng_vars,
                   san_vars, mrg_vars, ov_vars, af_vars, pr_vars, job_vars, cp_vars>>

----------------------------------------------------------------------------
(* sanitize_sheet_name (util.py) and XlsxWriter._create_unique_sheet_name *)

\* name.replace(ch, replace_to)
\* (faulty variant: only the first occurrence is replaced)
str_replace_bad(name, ch, replace_to) ==
    [k \in 1..Len(name) |->
        IF name[k] = ch /\ \A j \in 1..(k - 1) : name[j] # ch
        THEN replace_to ELSE name[k]]
str_replace(name, ch, replace_to) ==
    [k \in 1..Len(name) |-> IF name[k] = ch THEN replace_to ELSE name[k]]

\* for ch in TUP_EXCEL_ILLEGAL: name = name.replace(ch, replace_to); k is the
\* 1-based position reached in TUP_EXCEL_ILLEGAL
RECURSIVE replace_illegal_from(_, _, _)
replace_illegal_from(name, replace_to, k) ==
    IF k > Len(TUP_EXCEL_ILLEGAL) THEN name
    ELSE replace_illegal_from(str_replace(name, TUP_EXCEL_ILLEGAL[k], replace_to),
                              replace_to, k + 1)

\* the whitespace characters str.strip() removes, of those a modelled name may hold
Whitespace == {" "}

\* name.strip()
RECURSIVE str_strip(_)
str_strip(name) ==
    IF name = <<>> THEN name
    ELSE IF Head(name) \in Whitespace THEN str_strip(Tail(name))
    ELSE IF name[Len(name)] \in Whitespace THEN str_strip(SubSeq(name, 1, Len(name) - 1))
    ELSE name

\* sanitize_sheet_name(name) with the default replace_to="_"
\* (faulty variant: the result is not cut to N_LEN_EXCEL_SHEET_NAME_MAX characters)
sanitize_sheet_name_bad(name) ==
    LET c_replaced == replace_illegal_from(name, "_", 1)
        c_stripped == str_strip(c_replaced)
    IN  IF c_stripped = <<>> THEN <<"S", "h", "e", "e", "t">> ELSE c_stripped
sanitize_sheet_name(name) ==
    LET c_replaced == replace_illegal_from(name, "_", 1)
        c_stripped == str_strip(c_replaced)
        c_named == IF c_stripped = <<>> THEN <<"S", "h", "e", "e", "t">> ELSE c_stripped
    IN  Take(c_named, N_LEN_EXCEL_SHEET_NAME_MAX)

\* A character outside the Basic Multilingual Plane (for example U+1F600) is one
\* element of a Python str and of a modelled name; it is written as one token.
AstralChars == {"U+1F600"}

\* the number of UTF-16 code units of one character
utf16_units(ch) == IF ch \in AstralChars THEN 2 ELSE 1

\* len(name.encode("utf-16-le")) // 2: the length of name in UTF-16 code units
RECURSIVE utf16_len(_)
utf16_len(name) ==
    IF name = <<>> THEN 0 ELSE utf16_units(Head(name)) + utf16_len(Tail(name))

\* c_base_name = name[: max(1, N_LEN_EXCEL_SHEET_NAME_MAX - 3)]
bump_base_name(name) == Take(name, Max(1, N_LEN_EXCEL_SHEET_NAME_MAX - 3))

\* f"{c_base_name}__{i}"[:N_LEN_EXCEL_SHEET_NAME_MAX]
bump_candidate_name(base_name, i) ==
    Take(base_name \o <<"_", "_">> \o Dec(i), N_LEN_EXCEL_SHEET_NAME_MAX)

\* while c_candidate_name in self._existing_sheet_names
\* (faulty variant: the first candidate is taken without looking it up)
bump_continues_bad(candidate, existing) == FALSE
bump_continues(candidate, existing) == candidate \in existing

\* the names write_sheet is asked for, before sanitizing
RawSheetNames ==
    {<<>>, <<" ">>, <<" ", "a", "*">>, <<"a", "_">>,
     Chars(N_LEN_EXCEL_SHEET_NAME_MAX - 3),
     Chars(N_LEN_EXCEL_SHEET_NAME_MAX),
     Chars(N_LEN_EXCEL_SHEET_NAME_MAX + 2),
     Chars(N_LEN_EXCEL_SHEET_NAME_MAX - 3) \o <<"_", "_", "1">>}

\* the writer after __init__: no sheet name issued
NameInit ==
    /\ existing_sheet_names = {}
    /\ name_pc = "idle"
    /\ c_base_name = <<>>
    /\ bump_i = 0
    /\ c_candidate_name = <<>>
    /\ names_returned = {}
    /\ n_names_returned = 0
    /\ name_last = <<>>

\* return of _create_unique_sheet_name: the name joins _existing_sheet_names
ReturnName(name) ==
    /\ existing_sheet_names' = existing_sheet_names \cup {name}
    /\ names_returned' = names_returned \cup {name}
    /\ n_names_returned' = n_names_returned + 1
    /\ name_last' = name
    /\ name_pc' = "idle"

\* _create_unique_sheet_name(sanitize_sheet_name(raw)), up to its return or to the
\* first evaluation of the while condition
RequestSheetName ==
    /\ name_pc = "idle"
    /\ n_names_returned < MaxIssued
    /\ \E raw \in RawSheetNames :
          LET name == sanitize_sheet_name(raw)
          IN  \/ /\ name \notin existing_sheet_names
                 /\ ReturnName(name)
                 /\ UNCHANGED <<c_base_name, bump_i, c_candidate_name>>
              \/ /\ name \in existing_sheet_names
                 /\ c_base_name' = bump_base_name(name)
                 /\ bump_i' = 2
                 /\ c_candidate_name' = bump_candidate_name(bump_base_name(name), 2)
                 /\ name_pc' = "bump"
                 /\ UNCHANGED <<existing_sheet_names, names_returned,
                                n_names_returned, name_last>>
    /\ UNCHANGED not_name_vars

\* one iteration of the while loop: i += 1 and the next candidate
BumpStep ==
    /\ name_pc = "bump"
    /\ bump_continues(c_candidate_name, existing_sheet_names)
    /\ bump_i < MaxBump
    /\ bump_i' = bump_i + 1
    /\ c_candidate_name' = bump_candidate_name(c_base_name, bump_i + 1)
    /\ UNCHANGED <<existing_sheet_names, name_pc, c_base_name, names_returned,
                   n_names_returned, name_last>>
    /\ UNCHANGED not_name_vars

\* the while condition is false: the candidate is added and returned
BumpReturn ==
    /\ name_pc = "bump"
    /\ ~bump_continues(c_candidate_name, existing_sheet_names)
    /\ ReturnName(c_candidate_name)
    /\ UNCHANGED <<c_base_name, bump_i, c_candidate_name>>
    /\ UNCHANGED not_name_vars

----------------------------------------------------------------------------
(* Header planners (util.py) *)

\* len(header_grid), len(header_grid[0])
grid_n_rows(header_grid) == Len(header_grid)
grid_n_cols(header_grid) == Len(header_grid[1])

\* header_grid[row][col], 0-based
cell(header_grid, row, col) == header_grid[row + 1][col + 1]

\* plan_horizontal_merges: "if not c_cell_val_": the cell starts no run
\* (faulty variant: empty cells start and extend runs like any other)
h_cell_skipped_bad(c_cell_val) == FALSE
h_cell_skipped(c_cell_val) == c_cell_val = ""

\* plan_horizontal_merges: the inner while; returns n_col_idx_end_
RECURSIVE h_run_end(_, _, _, _)
h_run_end(l_row_val, n_cols, c_cell_val, n_col_idx_end) ==
    IF n_col_idx_end < n_cols /\ l_row_val[n_col_idx_end + 1] = c_cell_val
    THEN h_run_end(l_row_val, n_cols, c_cell_val, n_col_idx_end + 1)
    ELSE n_col_idx_end

\* plan_horizontal_merges: "if n_col_idx_end_ - n_col_idx_ > 1"
\* (faulty variant: runs of two cells are not merged)
h_run_is_merge_bad(n_col_idx, n_col_idx_end) == n_col_idx_end - n_col_idx > 2
h_run_is_merge(n_col_idx, n_col_idx_end) == n_col_idx_end - n_col_idx > 1

\* plan_horizontal_merges: the while loop over one row, from n_col_idx on; returns
\* the merges appended for the row
RECURSIVE h_row_merges_from(_, _, _, _)
h_row_merges_from(l_row_val, n_cols, row_idx, n_col_idx) ==
    IF ~(n_col_idx < n_cols) THEN <<>>
    ELSE LET c_cell_val == l_row_val[n_col_idx + 1]
         IN  IF h_cell_skipped(c_cell_val)
             THEN h_row_merges_from(l_row_val, n_cols, row_idx, n_col_idx + 1)
             ELSE LET n_col_idx_end == h_run_end(l_row_val, n_cols, c_cell_val,
                                                 n_col_idx + 1)
                  IN  (IF h_run_is_merge(n_col_idx, n_col_idx_end)
                       THEN <<[row_idx_start |-> row_idx,
                               col_idx_start |-> n_col_idx,
                               col_idx_end |-> n_col_idx_end - 1,
                               text |-> c_cell_val]>>
                       ELSE <<>>)
                      \o h_row_merges_from(l_row_val, n_cols, row_idx, n_col_idx_end)

\* plan_horizontal_merges(header_grid): a dict keyed by the rows that have a merge
plan_horizontal_merges(header_grid) ==
    IF header_grid = <<>> THEN <<>>
    ELSE LET n_rows == grid_n_rows(header_grid)
             n_cols == grid_n_cols(header_grid)
             row_merges(row_idx) ==
                 h_row_merges_from(header_grid[row_idx + 1], n_cols, row_idx, 0)
         IN  [row_idx \in {r \in 0..(n_rows - 1) : row_merges(r) # <<>>}
                 |-> row_merges(row_idx)]

\* _generate_vertical_runs: "if not c_val_cell_current_"
v_cell_skipped(c_val_cell) == c_val_cell = ""

\* _generate_vertical_runs: the inner while; returns n_row_idx_next_
RECURSIVE v_run_next(_, _, _, _, _)
v_run_next(header_grid, n_rows, col_idx, c_val_cell_current, n_row_idx_next) ==
    IF n_row_idx_next < n_rows /\ cell(header_grid, n_row_idx_next, col_idx) = c_val_cell_current
    THEN v_run_next(header_grid, n_rows, col_idx, c_val_cell_current, n_row_idx_next + 1)
    ELSE n_row_idx_next

\* _generate_vertical_runs: the runs yielded from (col_idx, n_row_idx_start) on, the
\* grid not being changed between the yields
RECURSIVE vertical_runs_from(_, _, _, _, _)
vertical_runs_from(header_grid, n_rows, n_cols, col_idx, n_row_idx_start) ==
    IF ~(col_idx < n_cols) THEN <<>>
    ELSE IF ~(n_row_idx_start < n_rows)
    THEN vertical_runs_from(header_grid, n_rows, n_cols, col_idx + 1, 0)
    ELSE LET c_val == cell(header_grid, n_row_idx_start, col_idx)
         IN  IF v_cell_skipped(c_val)
             THEN vertical_runs_from(header_grid, n_rows, n_cols, col_idx,
                                     n_row_idx_start + 1)
             ELSE LET n_row_idx_next == v_run_next(header_grid, n_rows, col_idx, c_val,
                                                   n_row_idx_start + 1)
                  IN  (IF n_row_idx_next - n_row_idx_start > 1
                       THEN <<[col_idx |-> col_idx,
                               row_start |-> n_row_idx_start,
                               row_end |-> n_row_idx_next - 1,
                               value |-> c_val]>>
                       ELSE <<>>)
                      \o vertical_runs_from(header_grid, n_rows, n_cols, col_idx,
                                            n_row_idx_next)

\* list(_generate_vertical_runs(header_grid))
generate_vertical_runs(header_grid) ==
    IF header_grid = <<>> THEN <<>>
    ELSE vertical_runs_from(header_grid, grid_n_rows(header_grid),
                            grid_n_cols(header_grid), 0, 0)

\* the SpecCellBorder of one row of a run
\* (faulty variant: the bottom border is drawn on the run's top row)
run_cell_border_bad(row_idx, row_start, row_end) ==
    [top |-> IF row_idx = row_start THEN 1 ELSE 0,
     bottom |-> IF row_idx = row_start THEN 1 ELSE 0,
     left |-> 1,
     right |-> 1]
run_cell_border(row_idx, row_start, row_end) ==
    [top |-> IF row_idx = row_start THEN 1 ELSE 0,
     bottom |-> IF row_idx = row_end THEN 1 ELSE 0,
     left |-> 1,
     right |-> 1]

\* plan_vertical_visual_merge_borders: the body of the outer for, for one run
border_plan_add(dict_plan, run) ==
    LET new_cells == {<<r, run.col_idx>> : r \in run.row_start..run.row_end}
    IN  [rc \in (DOMAIN dict_plan) \cup new_cells |->
            IF rc \in new_cells
            THEN run_cell_border(rc[1], run.row_start, run.row_end)
            ELSE dict_plan[rc]]

\* plan_vertical_visual_merge_borders: the outer for, from the k-th run on
RECURSIVE border_plan_from(_, _, _)
border_plan_from(dict_plan, l_runs, k) ==
    IF k > Len(l_runs) THEN dict_plan
    ELSE border_plan_from(border_plan_add(dict_plan, l_runs[k]), l_runs, k + 1)

\* plan_vertical_visual_merge_borders(header_grid)
plan_vertical_visual_merge_borders(header_grid) ==
    border_plan_from(<<>>, generate_vertical_runs(header_grid), 1)

\* apply_vertical_run_text_blankout: the first row a run's blank-out clears
\* (faulty variant: the top cell of the run is cleared too)
blank_first_row_bad(row_start) == row_start
blank_first_row(row_start) == row_start + 1

\* header_grid[row][col_idx] = "" for row in range(row_from, row_end + 1)
blank_rows(header_grid, col_idx, row_from, row_end) ==
    [r \in 1..Len(header_grid) |->
        [c \in 1..Len(header_grid[r]) |->
            IF c = col_idx + 1 /\ (r - 1) \in row_from..row_end
            THEN ""
            ELSE header_grid[r][c]]]

\* apply_vertical_run_text_blankout: its for loop over the generator.  The generator
\* is resumed after each run's cells were cleared, so it reads the grid as changed
\* so far; (col_idx, n_row_idx_start) is the generator's position.
RECURSIVE blankout_from(_, _, _, _, _)
blankout_from(header_grid, n_rows, n_cols, col_idx, n_row_idx_start) ==
    IF ~(col_idx < n_cols) THEN header_grid
    ELSE IF ~(n_row_idx_start < n_rows)
    THEN blankout_from(header_grid, n_rows, n_cols, col_idx + 1, 0)
    ELSE LET c_val == cell(header_grid, n_row_idx_start, col_idx)
         IN  IF v_cell_skipped(c_val)
             THEN blankout_from(header_grid, n_rows, n_cols, col_idx, n_row_idx_start + 1)
             ELSE LET n_row_idx_next == v_run_next(header_grid, n_rows, col_idx, c_val,
                                                   n_row_idx_start + 1)
                  IN  IF n_row_idx_next - n_row_idx_start > 1
                      THEN blankout_from(
                               blank_rows(header_grid, col_idx,
                                          blank_first_row(n_row_idx_start),
                                          n_row_idx_next - 1),
                               n_rows, n_cols, col_idx, n_row_idx_next)
                      ELSE blankout_from(header_grid, n_rows, n_cols, col_idx,
                                         n_row_idx_next)

\* apply_vertical_run_text_blankout(header_grid): the grid object after the call
apply_vertical_run_text_blankout(header_grid) ==
    IF header_grid = <<>> THEN header_grid
    ELSE blankout_from(header_grid, grid_n_rows(header_grid),
                       grid_n_cols(header_grid), 0, 0)

\* create_horizontal_merge_tracker: the first column of a merge that is marked
\* (faulty variant: the leftmost cell of the merge is marked too)
tracker_first_col_bad(merge) == merge.col_idx_start
tracker_first_col(merge) == merge.col_idx_start + 1

\* create_horizontal_merge_tracker(row_horizontal_merge_mapping): dict (row, col) -> True
create_horizontal_merge_tracker(row_horizontal_merge_mapping) ==
    LET marked ==
            UNION {UNION {{<<row_idx, col_idx>> :
                             col_idx \in tracker_first_col(row_horizontal_merge_mapping[row_idx][k])
                                         ..row_horizontal_merge_mapping[row_idx][k].col_idx_end} :
                          k \in DOMAIN row_horizontal_merge_mapping[row_idx]} :
                   row_idx \in DOMAIN row_horizontal_merge_mapping}
    IN  [rc \in marked |-> TRUE]

\* the border handed to _create_header_fmt: dict_border_plan.get((row, col)), None
\* standing for the full border
header_cell_border(dict_border_plan, row_idx, col_idx) ==
    IF <<row_idx, col_idx>> \in DOMAIN dict_border_plan
    THEN dict_border_plan[<<row_idx, col_idx>>]
    ELSE [top |-> 1, bottom |-> 1, left |-> 1, right |-> 1]

\* _write_header: the write of one cell, write_blank for "" and write_string otherwise
header_cell_write(l_header_grid, dict_border_plan, row_idx, col_idx) ==
    [op |-> IF cell(l_header_grid, row_idx, col_idx) = ""
            THEN "write_blank" ELSE "write_string",
     row |-> row_idx,
     col |-> col_idx,
     string |-> cell(l_header_grid, row_idx, col_idx),
     border |-> header_cell_border(dict_border_plan, row_idx, col_idx)]

\* _write_header: the nested for loops of the cell-write pass, from (row_idx, col_idx)
\* on; returns the ws.write_* calls made, in order
RECURSIVE header_cell_writes_from(_, _, _, _, _)
header_cell_writes_from(l_header_grid, dict_border_plan, tracker, row_idx, col_idx) ==
    IF ~(row_idx < grid_n_rows(l_header_grid)) THEN <<>>
    ELSE IF ~(col_idx < grid_n_cols(l_header_grid))
    THEN header_cell_writes_from(l_header_grid, dict_border_plan, tracker, row_idx + 1, 0)
    ELSE (IF <<row_idx, col_idx>> \in DOMAIN tracker /\ tracker[<<row_idx, col_idx>>]
          THEN <<>>
          ELSE <<header_cell_write(l_header_grid, dict_border_plan, row_idx, col_idx)>>)
         \o header_cell_writes_from(l_header_grid, dict_border_plan, tracker,
                                    row_idx, col_idx + 1)

\* _write_header: the whole cell-write pass
header_cell_writes(l_header_grid, dict_border_plan, tracker) ==
    header_cell_writes_from(l_header_grid, dict_border_plan, tracker, 0, 0)

----------------------------------------------------------------------------
(* The header calls that are explored *)

HeaderValues == {"", "A", "B"}

HeaderShapes ==
    {s \in (0..MaxHeaderRows) \X (0..MaxHeaderCols) : s[1] * s[2] <= MaxHeaderCells}

\* the rectangular header grids: rows x cols, every cell a string
HeaderGrids == UNION {[1..s[1] -> [1..s[2] -> HeaderValues]] : s \in HeaderShapes}

HdrInit ==
    /\ hdr_call = [op |-> "none", header_grid |-> <<>>, if_merge |-> FALSE]
    /\ hdr_exc = "none"
    /\ hdr_grid = <<>>
    /\ hdr_borders = <<>>
    /\ hdr_merges = <<>>
    /\ hdr_writes = <<>>

\* plan_horizontal_merges(header_grid)
CallPlanHorizontalMerges ==
    /\ hdr_call.op = "none"
    /\ \E g \in HeaderGrids :
          /\ hdr_call' = [op |-> "plan_horizontal_merges", header_grid |-> g,
                          if_merge |-> TRUE]
          /\ hdr_merges' = plan_horizontal_merges(g)
          /\ hdr_grid' = g
    /\ UNCHANGED <<hdr_exc, hdr_borders, hdr_writes>>
    /\ UNCHANGED not_hdr_vars

\* plan_vertical_visual_merge_borders(header_grid)
CallPlanVerticalBorders ==
    /\ hdr_call.op = "none"
    /\ \E g \in HeaderGrids :
          /\ hdr_call' = [op |-> "plan_vertical_visual_merge_borders", header_grid |-> g,
                          if_merge |-> TRUE]
          /\ hdr_borders' = plan_vertical_visual_merge_borders(g)
          /\ hdr_grid' = g
    /\ UNCHANGED <<hdr_exc, hdr_merges, hdr_writes>>
    /\ UNCHANGED not_hdr_vars

\* apply_vertical_run_text_blankout(header_grid)
CallApplyBlankout ==
    /\ hdr_call.op = "none"
    /\ \E g \in HeaderGrids :
          /\ hdr_call' = [op |-> "apply_vertical_run_text_blankout", header_grid |-> g,
                          if_merge |-> TRUE]
          /\ hdr_grid' = apply_vertical_run_text_blankout(g)
    /\ UNCHANGED <<hdr_exc, hdr_borders, hdr_merges, hdr_writes>>
    /\ UNCHANGED not_hdr_vars

\* XlsxWriter._write_header(ws, header_grid, if_merge): the plans and the cell-write
\* pass
CallWriteHeader ==
    /\ hdr_call.op = "none"
    /\ \E g \in HeaderGrids, if_merge \in BOOLEAN :
          /\ hdr_call' = [op |-> "_write_header", header_grid |-> g,
                          if_merge |-> if_merge]
          /\ \/ /\ g = <<>>
                /\ hdr_exc' = "ValueError"
                /\ UNCHANGED <<hdr_grid, hdr_borders, hdr_merges, hdr_writes>>
             \/ /\ g # <<>>
                /\ LET b_visual_merge_vertical == if_merge /\ grid_n_rows(g) > 1
                       l_header_grid == IF b_visual_merge_vertical
                                        THEN apply_vertical_run_text_blankout(g)
                                        ELSE g
                       dict_border_plan == IF b_visual_merge_vertical
                                           THEN plan_vertical_visual_merge_borders(g)
                                           ELSE <<>>
                       dict_horizontal_merges_by_row ==
                           IF if_merge THEN plan_horizontal_merges(l_header_grid) ELSE <<>>
                       dict_horizontal_merge_tracker ==
                           create_horizontal_merge_tracker(dict_horizontal_merges_by_row)
                   IN  /\ hdr_borders' = dict_border_plan
                       /\ hdr_grid' = l_header_grid
                       /\ hdr_merges' = dict_horizontal_merges_by_row
                       /\ hdr_writes' = header_cell_writes(l_header_grid, dict_border_plan,
                                                           dict_horizontal_merge_tracker)
                /\ hdr_exc' = "none"
    /\ UNCHANGED not_hdr_vars

----------------------------------------------------------------------------
(* Column formats: SpecCellFormat (spec.py), XlsxWriter._plan_column_formats and the
   column selection of write_sheet (writer.py, util.py).  A format field is <<>> for
   None and <<v>> for the value v. *)

FormatFields ==
    {"font_name", "font_size", "bold", "italic", "align", "valign", "border",
     "text_wrap", "top", "bottom", "left", "right", "num_format", "bg_color",
     "font_color"}

\* SpecCellFormat(): every field None
SpecCellFormat == [k \in FormatFields |-> <<>>]

\* self.with_(**kwargs): kwargs given as a function on some of the fields
fmt_with(self, kwargs) ==
    [k \in FormatFields |-> IF k \in DOMAIN kwargs THEN kwargs[k] ELSE self[k]]

\* self.merge(other): the fields of other that are not None override those of self
\* (faulty variant: the fields of self that are not None are kept)
fmt_merge_bad(self, other) ==
    [k \in FormatFields |-> IF self[k] # <<>> THEN self[k] ELSE other[k]]
fmt_merge(self, other) ==
    [k \in FormatFields |-> IF other[k] # <<>> THEN other[k] ELSE self[k]]

\* _cls_base_fmt_spec and DEFAULT_XLSX_FORMATS (conf.py)
cls_base_fmt_spec ==
    fmt_with(SpecCellFormat,
             [k \in {"font_name", "font_size", "border", "align", "valign"} |->
                 CASE k = "font_name" -> <<"Times New Roman">>
                   [] k = "font_size" -> <<11>>
                   [] k = "border" -> <<1>>
                   [] k = "align" -> <<"left">>
                   [] k = "valign" -> <<"vcenter">>])
cfg_fmt_text == cls_base_fmt_spec
cfg_fmt_int == fmt_with(cls_base_fmt_spec, [k \in {"num_format"} |-> <<"0">>])
cfg_fmt_dec == fmt_with(cls_base_fmt_spec, [k \in {"num_format"} |-> <<"0.0000">>])

\* SpecXlsxWriteOptions.base_format_patch
base_format_patch ==
    fmt_with(SpecCellFormat,
             [k \in {"border", "top", "bottom", "left", "right"} |-> <<0>>])

\* polars dtype predicates, for the dtypes a modelled table holds
dtype_is_numeric(dtype) == dtype \in {"Int64", "Float64"}
dtype_is_integer(dtype) == dtype = "Int64"

\* tuple(sorted(idx)) of a set of ints
RECURSIVE sorted_tuple(_)
sorted_tuple(idx) ==
    IF idx = {} THEN <<>>
    ELSE LET lo == CHOOSE i \in idx : \A j \in idx : i <= j
         IN  <<lo>> \o sorted_tuple(idx \ {lo})

\* set(t) of a tuple
tuple_set(t) == {t[k] : k \in DOMAIN t}

\* select_numeric_cols(df): schema is the list of the columns' dtypes
select_numeric_cols(schema) ==
    sorted_tuple({i \in 0..(Len(schema) - 1) : dtype_is_numeric(schema[i + 1])})

\* select_integer_cols(df, cols_idx_num)
select_integer_cols(schema, cols_idx_num) ==
    LET is_int(i) == dtype_is_integer(schema[i + 1])
    IN  SelectSeq(cols_idx_num, is_int)

\* select_sorted_indices_from_refs(df, refs), the refs being column numbers; the
\* empty set stands for every falsy refs (None, False, an empty sequence)
select_sorted_indices_from_refs(refs) ==
    IF refs = {} THEN <<>> ELSE sorted_tuple(refs)

\* write_sheet: the numeric, integer and decimal column indices handed to the
\* format planner.  tup_cols_idx_decimal is False in the code when cols_decimal is
\* falsy; the code only tests its truth value, which is that of the empty tuple.
write_sheet_column_indices(schema, infer_numeric_cols, infer_integer_cols, cols_integer, cols_decimal) ==
    LET tup_cols_idx_numeric ==
            IF infer_numeric_cols THEN select_numeric_cols(schema) ELSE <<>>
        tup_cols_idx_integer_inferred ==
            IF infer_integer_cols
            THEN select_integer_cols(schema, tup_cols_idx_numeric)
            ELSE <<>>
        tup_cols_idx_integer_specified == select_sorted_indices_from_refs(cols_integer)
        tup_cols_idx_decimal_specified ==
            IF cols_decimal # {} THEN select_sorted_indices_from_refs(cols_decimal)
            ELSE <<>>
    IN  [numeric |-> tup_cols_idx_numeric,
         integer |-> IF tup_cols_idx_integer_specified # <<>>
                     THEN tup_cols_idx_integer_specified
                     ELSE tup_cols_idx_integer_inferred,
         decimal |-> tup_cols_idx_decimal_specified]

\* _plan_column_formats: the format of column col_idx in fmts_by_col
plan_column_format(col_idx, width_data, l_cols_idx_dec_sorted, l_cols_idx_int_sorted, cols_fmt_overrides) ==
    LET fmt_text_or_dec == IF col_idx \in l_cols_idx_dec_sorted
                           THEN cfg_fmt_dec ELSE cfg_fmt_text
        fmt_typed == IF col_idx \in l_cols_idx_int_sorted
                     THEN cfg_fmt_int ELSE fmt_text_or_dec
    IN  IF col_idx \in DOMAIN cols_fmt_overrides /\ 0 <= col_idx /\ col_idx < width_data
        THEN fmt_merge(fmt_typed, cols_fmt_overrides[col_idx])
        ELSE fmt_typed

\* XlsxWriter._plan_column_formats(width_data, cols_idx_numeric, cols_idx_integer,
\* cols_idx_decimal, cols_fmt_overrides)
plan_column_formats(width_data, cols_idx_numeric, cols_idx_integer, cols_idx_decimal, cols_fmt_overrides) ==
    IF width_data <= 0 THEN [fmts_by_col |-> <<>>, fmts_base_by_col |-> <<>>]
    ELSE LET set_cols_idx_int == tuple_set(cols_idx_integer)
             set_cols_idx_dec == tuple_set(cols_idx_decimal)
             set_cols_idx_num == tuple_set(cols_idx_numeric)
             l_cols_idx_int_sorted == set_cols_idx_int \cap set_cols_idx_num
             l_cols_idx_dec_sorted ==
                 IF set_cols_idx_dec # {}
                 THEN (set_cols_idx_num \ set_cols_idx_int)
                      \cup (set_cols_idx_dec \cap set_cols_idx_num)
                 ELSE {}
             l_fmt_by_col ==
                 [k \in 1..width_data |->
                     plan_column_format(k - 1, width_data, l_cols_idx_dec_sorted,
                                        l_cols_idx_int_sorted, cols_fmt_overrides)]
         IN  [fmts_by_col |-> l_fmt_by_col,
              fmts_base_by_col |->
                  [k \in 1..width_data |-> fmt_merge(l_fmt_by_col[k], base_format_patch)]]

----------------------------------------------------------------------------
(* The column format plans that are explored *)

Dtypes == {"Int64", "Float64", "String"}

\* the format an addon overrides a column with
OverrideFormats ==
    {fmt_with(SpecCellFormat,
              [k \in {"num_format", "bold"} |->
                  IF k = "bold" THEN <<TRUE>> ELSE <<"0.00%">>])}

\* dicts from some of the columns 0..width_df (one past the last included) to an
\* override format
OverrideDicts(width_df) ==
    UNION {[cols -> OverrideFormats] : cols \in SUBSET (0..width_df)}

FmtInit ==
    /\ fmt_call = [op |-> "none"]
    /\ fmt_plan = [fmts_by_col |-> <<>>, fmts_base_by_col |-> <<>>]

\* write_sheet for a table of one slice: the column selection and
\* self._plan_column_formats(...)
PlanColumnFormats ==
    /\ fmt_call.op = "none"
    /\ \E width_df \in 0..MaxFmtCols :
       \E schema \in [1..width_df -> Dtypes] :
       \E infer_numeric_cols \in BOOLEAN, infer_integer_cols \in BOOLEAN :
       \E cols_integer \in SUBSET (0..(width_df - 1)) :
       \E cols_decimal \in SUBSET (0..(width_df - 1)) :
       \E dict_cols_fmt_overrides \in OverrideDicts(width_df) :
          LET idx == write_sheet_column_indices(schema, infer_numeric_cols,
                                                infer_integer_cols, cols_integer,
                                                cols_decimal)
              dict_cols_fmt_overrides_slice ==
                  [k \in {c \in DOMAIN dict_cols_fmt_overrides : 0 <= c /\ c < width_df}
                      |-> dict_cols_fmt_overrides[k]]
          IN  /\ fmt_call' = [op |-> "write_sheet",
                              schema |-> schema,
                              cols_idx_numeric |-> idx.numeric,
                              cols_idx_integer |-> idx.integer,
                              cols_idx_decimal |-> idx.decimal,
                              cols_fmt_overrides |-> dict_cols_fmt_overrides]
              /\ fmt_plan' = plan_column_formats(width_df, idx.numeric, idx.integer,
                                                 idx.decimal,
                                                 dict_cols_fmt_overrides_slice)
    /\ UNCHANGED not_fmt_vars

----------------------------------------------------------------------------
(* XlsxWriter.write_sheet (writer.py): validation, slice planning and the loop over
   the slices.  The writer has the default write options. *)

\* validate_unique_columns(df): the exception raised, for the list of column names
validate_unique_columns(l_cols) ==
    IF Len(l_cols) = Cardinality({l_cols[k] : k \in DOMAIN l_cols})
    THEN "none"
    ELSE "ValueError"

\* "" if v is None else str(v): a cell of df_header is <<>> for None and <<v>> for
\* the value v
header_cell_str(v) == IF v = <<>> THEN "" ELSE v[1]

\* write_sheet from "build header grid" on, the table's columns having been
\* validated: [exc, l_header_grid]
build_header_grid(columns, df_header) ==
    IF ~df_header.given
    THEN [exc |-> "none", l_header_grid |-> <<columns>>]
    ELSE IF validate_unique_columns(df_header.columns) # "none"
    THEN [exc |-> "ValueError", l_header_grid |-> <<>>]
    ELSE IF Len(df_header.rows) = 0
    THEN [exc |-> "ValueError", l_header_grid |-> <<>>]
    ELSE IF Len(df_header.columns) # Len(columns)
    THEN [exc |-> "ValueError", l_header_grid |-> <<>>]
    ELSE [exc |-> "none",
          l_header_grid |->
              [r \in 1..Len(df_header.rows) |->
                  [k \in 1..Len(df_header.rows[r]) |->
                      header_cell_str(df_header.rows[r][k])]]]

\* seq[start:end] of Python, for 0 <= start and 0 <= end
py_slice(seq, start, end) == SubSeq(seq, Min(start, Len(seq)) + 1, Min(end, Len(seq)))

\* l_header_grid_slice_: every row of the grid cut to the slice's columns
\* (faulty variant: the rows of the grid are cut, not the columns of each row)
header_grid_slice_bad(l_header_grid, col_start_inclusive, col_end_exclusive) ==
    py_slice(l_header_grid, col_start_inclusive, col_end_exclusive)
header_grid_slice(l_header_grid, col_start_inclusive, col_end_exclusive) ==
    [r \in 1..Len(l_header_grid) |->
        py_slice(l_header_grid[r], col_start_inclusive, col_end_exclusive)]

\* _write_header: the exception raised for a header grid
write_header_exc(header_grid) == IF header_grid = <<>> THEN "ValueError" ELSE "none"

\* _create_unique_sheet_name: the while loop from candidate i on
RECURSIVE unique_sheet_name_from(_, _, _)
unique_sheet_name_from(existing, base_name, i) ==
    IF bump_continues(bump_candidate_name(base_name, i), existing)
    THEN unique_sheet_name_from(existing, base_name, i + 1)
    ELSE bump_candidate_name(base_name, i)

\* _create_unique_sheet_name(name): the name returned
create_unique_sheet_name(existing, name) ==
    IF name \notin existing THEN name
    ELSE unique_sheet_name_from(existing, bump_base_name(name), 2)

----------------------------------------------------------------------------
(* The write_sheet calls that are explored *)

\* the column names of a table one column wider than a sheet
WideColumns == [i \in 1..(N_NCOLS_EXCEL_MAX + 1) |-> ToString(i)]

\* lists of column names: none, distinct ones, a repeated one, and the wide table
SheetColumnLists == {<<>>, <<"a">>, <<"a", "b">>, <<"a", "a">>, WideColumns}

\* the tables passed as df: their column names and the outcome of
\* validate_unique_columns(df_custom), which write_sheet calls first
SheetTables ==
    {[columns |-> c, exc |-> validate_unique_columns(c)] : c \in SheetColumnLists}

\* df_header=None
NoHeader == [given |-> FALSE, columns |-> <<>>, rows |-> <<>>]

\* a df_header of the given columns and height; the cells on the diagonal are None
HeaderFrame(columns, height) ==
    [given |-> TRUE,
     columns |-> columns,
     rows |-> [r \in 1..height |->
                 [k \in 1..Len(columns) |-> IF r = k THEN <<>> ELSE <<"A">>]]]

SheetHeaders ==
    {NoHeader}
    \cup {HeaderFrame(c, h) : c \in {<<"x">>, <<"x", "y">>, <<"x", "x">>},
                              h \in 0..MaxSheetHeaderRows}

SheetName == <<"S">>

\* no write_sheet call is in progress
SheetInit ==
    /\ ws_pc = "idle"
    /\ ws_call = [op |-> "none"]
    /\ ws_exc = "none"
    /\ ws_header_grid = <<>>
    /\ ws_parts = <<>>
    /\ ws_idx = 0
    /\ ws_worksheets = <<>>
    /\ ws_report_sheets = <<>>

\* write_sheet(df, sheet_name, df_header=...) up to the for loop over the slices
WriteSheetBegin ==
    /\ ws_pc = "idle"
    /\ \E df \in SheetTables, height_df \in 0..MaxSheetRows,
          df_header \in SheetHeaders :
          LET columns == df.columns
              h == IF df.exc # "none"
                   THEN [exc |-> "ValueError", l_header_grid |-> <<>>]
                   ELSE build_header_grid(columns, df_header)
              r == generate_sheet_slices(height_df, Len(columns), Len(h.l_header_grid),
                                         sanitize_sheet_name(SheetName), <<>>)
          IN  /\ ws_call' = [op |-> "write_sheet", columns |-> columns,
                             height_df |-> height_df, df_header |-> df_header]
              /\ IF h.exc # "none"
                 THEN /\ ws_exc' = h.exc
                      /\ ws_pc' = "raised"
                      /\ UNCHANGED <<ws_header_grid, ws_parts, ws_idx, report_warnings>>
                 ELSE IF r.exc # "none"
                 THEN /\ ws_exc' = r.exc
                      /\ ws_pc' = "raised"
                      /\ ws_header_grid' = h.l_header_grid
                      /\ UNCHANGED <<ws_parts, ws_idx, report_warnings>>
                 ELSE /\ ws_exc' = "none"
                      /\ ws_header_grid' = h.l_header_grid
                      /\ ws_parts' = r.l_sheet_parts
                      /\ ws_idx' = 1
                      /\ report_warnings' = r.warnings
                      /\ ws_pc' = IF r.l_sheet_parts = <<>> THEN "done" ELSE "loop"
    /\ UNCHANGED <<ws_worksheets, ws_report_sheets, existing_sheet_names>>
    /\ UNCHANGED not_sheet_vars

\* the loop body up to the worksheet: _create_unique_sheet_name and add_worksheet
WriteSheetAddWorksheet ==
    /\ ws_pc = "loop"
    /\ LET c_sheet_name_unique ==
              create_unique_sheet_name(existing_sheet_names, ws_parts[ws_idx].sheet_name)
       IN  /\ existing_sheet_names' = existing_sheet_names \cup {c_sheet_name_unique}
           /\ ws_worksheets' = Append(ws_worksheets, c_sheet_name_unique)
    /\ ws_pc' = "header"
    /\ UNCHANGED <<ws_call, ws_exc, ws_header_grid, ws_parts, ws_idx, ws_report_sheets,
                   report_warnings>>
    /\ UNCHANGED not_sheet_vars

\* the loop body from the header grid slice to self._write_header(...)
WriteSheetHeader ==
    /\ ws_pc = "header"
    /\ LET l_header_grid_slice ==
              header_grid_slice(ws_header_grid, ws_parts[ws_idx].col_start_inclusive,
                                ws_parts[ws_idx].col_end_exclusive)
       IN  IF write_header_exc(l_header_grid_slice) # "none"
           THEN /\ ws_exc' = write_header_exc(l_header_grid_slice)
                /\ ws_pc' = "raised"
           ELSE /\ ws_pc' = "body"
                /\ UNCHANGED ws_exc
    /\ UNCHANGED <<ws_call, ws_header_grid, ws_parts, ws_idx, ws_worksheets,
                   ws_report_sheets, report_warnings, existing_sheet_names>>
    /\ UNCHANGED not_sheet_vars

\* the rest of the loop body: the data rows, the column formats and
\* inst_report.sheets.append(...); then the next slice, or the return
WriteSheetBody ==
    /\ ws_pc = "body"
    /\ ws_report_sheets' =
          Append(ws_report_sheets,
                 [ws_parts[ws_idx] EXCEPT !.sheet_name = ws_worksheets[Len(ws_worksheets)]])
    /\ ws_idx' = ws_idx + 1
    /\ ws_pc' = IF ws_idx + 1 > Len(ws_parts) THEN "done" ELSE "loop"
    /\ UNCHANGED <<ws_call, ws_exc, ws_header_grid, ws_parts, ws_worksheets,
                   report_warnings, existing_sheet_names>>
    /\ UNCHANGED not_sheet_vars

----------------------------------------------------------------------------
(* The calls of SpecCellFormat.merge that are explored *)

\* formats whose bold, num_format and border are None, a falsy value or a truthy
\* value, the other fields being all None or those of the base format of conf.py
MergeFormats ==
    {fmt_with(base, [k \in {"bold", "num_format", "border"} |->
                        CASE k = "bold" -> bold
                          [] k = "num_format" -> num_format
                          [] k = "border" -> border]) :
        base \in {SpecCellFormat, cls_base_fmt_spec},
        bold \in {<<>>, <<FALSE>>, <<TRUE>>},
        num_format \in {<<>>, <<"">>, <<"0">>},
        border \in {<<>>, <<0>>, <<1>>}}

MrgInit ==
    /\ mrg_call = [op |-> "none"]
    /\ mrg_ret = SpecCellFormat

\* a call self.merge(other); merge reads nothing but its arguments, so one call is
\* explored per behaviour
CallMerge ==
    /\ mrg_call.op = "none"
    /\ \E self \in MergeFormats, other \in MergeFormats :
          /\ mrg_call' = [op |-> "merge", self |-> self, other |-> other]
          /\ mrg_ret' = fmt_merge(self, other)
    /\ UNCHANGED not_mrg_vars

----------------------------------------------------------------------------
(* The calls of sanitize_sheet_name that are explored *)

\* the characters of the explored names: a letter, a blank, an astral character and
\* the Excel-illegal characters
SanChars == {"a", " "} \cup AstralChars \cup tuple_set(TUP_EXCEL_ILLEGAL)

\* all names of up to MaxSanLen characters, and names of one repeated character and
\* of a repeated pair of characters around N_LEN_EXCEL_SHEET_NAME_MAX characters
SanitizeInputs ==
    UNION {[1..n -> SanChars] : n \in 0..MaxSanLen}
    \cup {[i \in 1..(N_LEN_EXCEL_SHEET_NAME_MAX + d) |-> IF i % 2 = 1 THEN c1 ELSE c2] :
            c1 \in SanChars, c2 \in {"a", " ", "*", "U+1F600"}, d \in {-1, 0, 1, 2}}

SanInit ==
    /\ san_call = [op |-> "none", name |-> <<>>]
    /\ san_ret = <<>>

\* a call sanitize_sheet_name(name)
CallSanitizeSheetName ==
    /\ \E name \in SanitizeInputs :
          /\ san_call' = [op |-> "sanitize_sheet_name", name |-> name]
          /\ san_ret' = sanitize_sheet_name(name)
    /\ UNCHANGED not_san_vars

----------------------------------------------------------------------------
(* Row chunks: calculate_row_chunk_size, generate_row_chunks (util.py) and the loop
   of write_sheet that consumes them.  fixed_size is <<>> for None and <<n>> for n. *)

\* SpecXlsxRowChunkPolicy(...)
SpecXlsxRowChunkPolicy(width_large, width_medium, size_large, size_medium, size_default, fixed_size) ==
    [width_large |-> width_large, width_medium |-> width_medium,
     size_large |-> size_large, size_medium |-> size_medium,
     size_default |-> size_default, fixed_size |-> fixed_size]

\* SpecXlsxRowChunkPolicy(): the defaults
DefaultRowChunkPolicy == SpecXlsxRowChunkPolicy(8000, 2000, 1000, 2000, 10000, <<>>)

\* calculate_row_chunk_size(width_df, policy)
calculate_row_chunk_size(width_df, policy) ==
    IF policy.fixed_size # <<>> THEN policy.fixed_size[1]
    ELSE IF width_df >= policy.width_large THEN policy.size_large
    ELSE IF width_df >= policy.width_medium THEN policy.size_medium
    ELSE policy.size_default

\* df.slice(offset, length).height for 0 <= offset and 0 <= length
df_slice_height(height_df, offset, length) == Max(0, Min(length, height_df - offset))

\* n_rows_per_chunk = min(size_rows_chunk, n_rows_total - n_row_cursor)
rows_per_chunk(size_rows_chunk, n_rows_total, cursor) ==
    Min(size_rows_chunk, n_rows_total - cursor)

\* n_row_cursor += n_rows_per_chunk
\* (faulty variant: the cursor skips one row after every chunk)
next_row_cursor_bad(cursor, n_rows) == cursor + n_rows + 1
next_row_cursor(cursor, n_rows) == cursor + n_rows

----------------------------------------------------------------------------
(* The row chunk loops that are explored *)

\* the default policy, fixed sizes 0..MaxFixedSize, and a policy with small tiers
RowChunkPolicies ==
    {DefaultRowChunkPolicy, SpecXlsxRowChunkPolicy(2, 1, 1, 2, 3, <<>>)}
    \cup {SpecXlsxRowChunkPolicy(8000, 2000, 1000, 2000, 10000, <<n>>) :
             n \in 0..MaxFixedSize}

\* slices of few columns, and at the width tiers of the default policy
ChunkWidths == {0, 1, 2, 1999, 2000, 7999, 8000}

\* slices of few rows under every policy, and slices of about one and of several
\* default chunks under the default policy
RowChunkCalls ==
    {[height_df |-> height_df, width_df |-> width_df, policy |-> policy] :
        height_df \in 0..MaxChunkRows, width_df \in ChunkWidths,
        policy \in RowChunkPolicies}
    \cup {[height_df |-> height_df, width_df |-> width_df,
           policy |-> DefaultRowChunkPolicy] :
             height_df \in {1000, 2001, 10001}, width_df \in ChunkWidths}

ChunkInit ==
    /\ chunk_pc = "idle"
    /\ chunk_call = [height_df |-> 0, width_df |-> 0, policy |-> DefaultRowChunkPolicy,
                     size_rows_chunk |-> 0]
    /\ chunk_exc = "none"
    /\ n_row_cursor = 0
    /\ n_rows_per_chunk = 0
    /\ chunks_yielded = <<>>

\* write_sheet: n_rows_chunk_ = calculate_row_chunk_size(...) and the call of
\* generate_row_chunks(df_slice_, n_rows_chunk_, ...), which runs no line of the
\* generator yet
RowChunksBegin ==
    /\ chunk_pc = "idle"
    /\ \E call \in RowChunkCalls :
          chunk_call' = [height_df |-> call.height_df, width_df |-> call.width_df,
                         policy |-> call.policy,
                         size_rows_chunk |->
                             calculate_row_chunk_size(call.width_df, call.policy)]
    /\ n_row_cursor' = 0
    /\ chunk_pc' = "loop"
    /\ UNCHANGED <<chunk_exc, n_rows_per_chunk, chunks_yielded>>
    /\ UNCHANGED not_chunk_vars

\* the for loop asks for the next pair: the while condition is true and the
\* generator runs to its yield.  The history keeps the first MaxChunksRecorded pairs.
RowChunkYield ==
    /\ chunk_pc = "loop"
    /\ n_row_cursor < chunk_call.height_df
    /\ n_rows_per_chunk' = rows_per_chunk(chunk_call.size_rows_chunk,
                                          chunk_call.height_df, n_row_cursor)
    /\ LET df_chunk_height == df_slice_height(chunk_call.height_df, n_row_cursor,
                                              n_rows_per_chunk')
       IN  chunks_yielded' =
               IF Len(chunks_yielded) < MaxChunksRecorded
               THEN Append(chunks_yielded,
                           [row_offset |-> n_row_cursor, height |-> df_chunk_height])
               ELSE chunks_yielded
    /\ chunk_pc' = "yielded"
    /\ UNCHANGED <<chunk_call, chunk_exc, n_row_cursor>>
    /\ UNCHANGED not_chunk_vars

\* write_sheet has written the rows of the chunk and the for loop resumes the
\* generator, which moves the cursor and is back at the while condition
RowChunkResume ==
    /\ chunk_pc = "yielded"
    /\ n_row_cursor' = next_row_cursor(n_row_cursor, n_rows_per_chunk)
    /\ chunk_pc' = "loop"
    /\ UNCHANGED <<chunk_call, chunk_exc, n_rows_per_chunk, chunks_yielded>>
    /\ UNCHANGED not_chunk_vars

\* the while condition is false: the generator returns and the for loop ends
RowChunksEnd ==
    /\ chunk_pc = "loop"
    /\ ~(n_row_cursor < chunk_call.height_df)
    /\ chunk_pc' = "done"
    /\ UNCHANGED <<chunk_call, chunk_exc, n_row_cursor, n_rows_per_chunk,
                   chunks_yielded>>
    /\ UNCHANGED not_chunk_vars

----------------------------------------------------------------------------
(* write_sheet: the column overrides of the addons (writer.py), with the write
   options of spec.py.  An object is the record of its attributes; a dict is a
   function on its keys. *)

\* SpecXlsxWriteOptions(): the fields of the dataclass (slots=True) with their defaults
SpecXlsxWriteOptions ==
    [value_policy |-> [missing_value_str |-> "NA", nan_str |-> "NaN",
                       posinf_str |-> "Inf", neginf_str |-> "-Inf",
                       integer_coerce |-> "strict"],
     keep_missing_values |-> FALSE,
     infer_numeric_cols |-> TRUE,
     infer_integer_cols |-> TRUE,
     row_chunk_policy |-> DefaultRowChunkPolicy,
     base_format_patch |-> base_format_patch]

\* obj.<name> raises AttributeError when the object has no such attribute
attribute_missing(obj, name) == name \notin DOMAIN obj

\* "Column override conflict: col=..., addon=..."
override_conflict_warning(col_idx, ad) ==
    [warning |-> "Column override conflict", col |-> col_idx, addon |-> ad.name]

\* d[key] = value on a dict
dict_set(d, key, value) ==
    [k \in DOMAIN d \cup {key} |-> IF k = key THEN value ELSE d[k]]

\* one turn of the inner for loop, for the item (_col_idx, _fmt) of addon _ad;
\* st is [exc, dict_cols_fmt_overrides, warnings]
override_item(st, ad, col_idx, fmt, write_options) ==
    IF col_idx \in DOMAIN st.dict_cols_fmt_overrides
    THEN IF attribute_missing(write_options, "warn_addon_override_conflicts")
         THEN [st EXCEPT !.exc = "AttributeError"]
         ELSE [st EXCEPT
                  !.warnings =
                      IF write_options["warn_addon_override_conflicts"]
                      THEN Append(@, override_conflict_warning(col_idx, ad)) ELSE @,
                  !.dict_cols_fmt_overrides =
                      dict_set(@, col_idx, fmt_merge(@[col_idx], fmt))]
    ELSE [st EXCEPT !.dict_cols_fmt_overrides = dict_set(@, col_idx, fmt)]

\* the inner for loop over the items of one addon's overrides, from the k-th of its
\* columns on; an exception ends the loops
RECURSIVE override_items_from(_, _, _, _, _)
override_items_from(st, ad, l_cols, k, write_options) ==
    IF k > Len(l_cols) \/ st.exc # "none" THEN st
    ELSE override_items_from(
             override_item(st, ad, l_cols[k], ad.overrides[l_cols[k]], write_options),
             ad, l_cols, k + 1, write_options)

\* one turn of the loop `for _ad in addons`
override_addon(st, ad, write_options) ==
    override_items_from(st, ad, sorted_tuple(DOMAIN ad.overrides), 1, write_options)

\* the format the k-th addon of a call overrides its columns with: the addons at
\* odd positions set bold, those at even positions clear it and set a number format
addon_format(k) ==
    IF k % 2 = 1
    THEN fmt_with(SpecCellFormat, [f \in {"bold"} |-> <<TRUE>>])
    ELSE fmt_with(SpecCellFormat, [f \in {"num_format", "bold"} |->
                                      IF f = "bold" THEN <<FALSE>> ELSE <<"0.00%">>])

\* the addons of a call: up to MaxAddons addons, named by their position, each
\* overriding some of the columns 0..MaxOvCol
AddonLists ==
    UNION {{[k \in 1..n |-> [name |-> k,
                             overrides |-> [col \in cols[k] |-> addon_format(k)]]] :
               cols \in [1..n -> SUBSET (0..MaxOvCol)]} : n \in 0..MaxAddons}

OvInit ==
    /\ ov_call = [op |-> "none", addons |-> <<>>]
    /\ ov_ret = [exc |-> "none", dict_cols_fmt_overrides |-> <<>>, warnings |-> <<>>]
    /\ ov_pc = "idle"
    /\ ov_idx = 0

\* write_sheet up to dict_cols_fmt_overrides = {}; the report of the call has no
\* warning yet
WriteSheetOverridesBegin ==
    /\ ov_pc = "idle"
    /\ ov_call.op = "none"
    /\ \E addons \in AddonLists :
          ov_call' = [op |-> "write_sheet", addons |-> addons]
    /\ ov_ret' = [exc |-> "none", dict_cols_fmt_overrides |-> <<>>, warnings |-> <<>>]
    /\ ov_pc' = "loop"
    /\ ov_idx' = 0
    /\ UNCHANGED not_ov_vars

\* one turn of the loop over the addons, with the write options of spec.py; an
\* exception leaves write_sheet
WriteSheetOverrideAddon ==
    /\ ov_pc = "loop"
    /\ ov_idx < Len(ov_call.addons)
    /\ ov_ret' = override_addon(ov_ret, ov_call.addons[ov_idx + 1], SpecXlsxWriteOptions)
    /\ ov_idx' = ov_idx + 1
    /\ ov_pc' = IF ov_ret'.exc # "none" THEN "raised" ELSE "loop"
    /\ UNCHANGED ov_call
    /\ UNCHANGED not_ov_vars

\* the loop over the addons is through
WriteSheetOverridesEnd ==
    /\ ov_pc = "loop"
    /\ ov_idx = Len(ov_call.addons)
    /\ ov_pc' = "done"
    /\ UNCHANGED <<ov_call, ov_ret, ov_idx>>
    /\ UNCHANGED not_ov_vars

----------------------------------------------------------------------------
(* write_sheet: the column widths of autofit (writer.py) *)

\* dict_col_widths[...][_col_idx] = max(dict_col_widths[...][_col_idx], estimate) for
\* the estimates of one column in the order they are made, starting from 0
RECURSIVE record_width_estimates(_, _)
record_width_estimates(n_recorded, estimates) ==
    IF estimates = <<>> THEN n_recorded
    ELSE record_width_estimates(Max(n_recorded, Head(estimates)), Tail(estimates))

\* n_min = max(1, int(width_cell_autofit_min))
autofit_n_min(width_cell_autofit_min) == Max(1, width_cell_autofit_min)

\* n_max = min(255, max(n_min, int(width_cell_autofit_max)))
autofit_n_max(n_min, width_cell_autofit_max) ==
    Min(255, Max(n_min, width_cell_autofit_max))

\* n_pad = max(0, int(width_cell_autofit_padding))
autofit_n_pad(width_cell_autofit_padding) == Max(0, width_cell_autofit_padding)

\* n_col_width_recorded_ of column col_idx (0-based)
\* (faulty variant: the rule "all" looks at the header only)
col_width_recorded_bad(dict_col_widths, rule_autofit_columns, col_idx) ==
    IF rule_autofit_columns # "all"
    THEN dict_col_widths[rule_autofit_columns][col_idx + 1]
    ELSE dict_col_widths["header"][col_idx + 1]
col_width_recorded(dict_col_widths, rule_autofit_columns, col_idx) ==
    IF rule_autofit_columns # "all"
    THEN dict_col_widths[rule_autofit_columns][col_idx + 1]
    ELSE Max(dict_col_widths["header"][col_idx + 1],
             dict_col_widths["body"][col_idx + 1])

\* n_col_width_final_ = min(n_max, max(n_min, n_col_width_recorded_ + n_pad))
col_width_final(n_min, n_max, n_pad, n_col_width_recorded) ==
    Min(n_max, Max(n_min, n_col_width_recorded + n_pad))

\* l_col_widths_final of a slice of width_df columns
col_widths_final(call, dict_col_widths, width_df) ==
    LET n_min == autofit_n_min(call.width_cell_autofit_min)
        n_max == autofit_n_max(n_min, call.width_cell_autofit_max)
        n_pad == autofit_n_pad(call.width_cell_autofit_padding)
    IN  [k \in 1..width_df |->
            col_width_final(n_min, n_max, n_pad,
                            col_width_recorded(dict_col_widths,
                                               call.rule_autofit_columns, k - 1))]

\* the estimates made for the cells of one column, in order: up to MaxEstimates
\* estimates of a short and of a very long text
EstimateLists == UNION {[1..n -> {3, 400}] : n \in 0..MaxEstimates}

\* write_sheet calls on a slice of two columns: the header cells of column 0 and
\* the body cells of column 1 give header_estimates, the body cells of column 0
\* and the header cells of column 1 give body_estimates
AutofitCalls ==
    [if_autofit_columns : BOOLEAN,
     rule_autofit_columns : {"header", "body", "all"},
     width_cell_autofit_min : {0, 8, 300},
     width_cell_autofit_max : {5, 60, 300},
     width_cell_autofit_padding : {-1, 2},
     header_estimates : EstimateLists,
     body_estimates : EstimateLists]

AfInit ==
    /\ af_call = [op |-> "none"]
    /\ af_widths = <<>>

\* write_sheet on one slice, from the first width estimate to _apply_column_formats
WriteSheetAutofit ==
    /\ af_call.op = "none"
    /\ \E call \in AutofitCalls :
          LET n_header == record_width_estimates(0, call.header_estimates)
              n_body == record_width_estimates(0, call.body_estimates)
              dict_col_widths == [r \in {"header", "body"} |->
                                     IF r = "header" THEN <<n_header, n_body>>
                                     ELSE <<n_body, n_header>>]
          IN  /\ af_call' = [op |-> "write_sheet", args |-> call,
                             dict_col_widths |-> dict_col_widths]
              /\ af_widths' = IF call.if_autofit_columns
                              THEN col_widths_final(call, dict_col_widths, 2)
                              ELSE <<>>
    /\ UNCHANGED not_af_vars

----------------------------------------------------------------------------
(* check_addon_cell_write_requirement (addon.py) and its use in write_sheet.  An
   addon is described by what its check_cell_write_required is: a method that
   returns a truthy or falsy value or raises an Exception, a plain attribute, or
   nothing. *)

AddonProbes ==
    {[kind |-> "method", outcome |-> "returns", value |-> TRUE],
     [kind |-> "method", outcome |-> "returns", value |-> FALSE],
     [kind |-> "method", outcome |-> "raises", value |-> FALSE],
     [kind |-> "method", outcome |-> "bool_raises", value |-> FALSE],
     [kind |-> "attribute", outcome |-> "returns", value |-> TRUE],
     [kind |-> "attribute", outcome |-> "returns", value |-> FALSE],
     [kind |-> "absent", outcome |-> "returns", value |-> FALSE]}

\* except Exception: return True
\* (faulty variant: a failing probe counts as no requirement)
probe_failure_result_bad == FALSE
probe_failure_result == TRUE

\* check_addon_cell_write_requirement(ad): [exc, ret]
check_addon_cell_write_requirement(ad) ==
    IF ad.kind = "method"
    THEN IF ad.outcome = "returns" THEN [exc |-> "none", ret |-> ad.value]
         ELSE [exc |-> "none", ret |-> probe_failure_result]
    ELSE IF ad.kind = "attribute" THEN [exc |-> "none", ret |-> ad.value]
    ELSE [exc |-> "none", ret |-> FALSE]

\* any(check_addon_cell_write_requirement(_ad) for _ad in addons), from the k-th
\* addon on: the checks made so far, ending at the first True or exception
RECURSIVE any_cell_write_from(_, _, _)
any_cell_write_from(addons, k, checks) ==
    IF k > Len(addons) THEN checks
    ELSE LET check == check_addon_cell_write_requirement(addons[k])
         IN  IF check.exc # "none" \/ check.ret
             THEN Append(checks, check)
             ELSE any_cell_write_from(addons, k + 1, Append(checks, check))

\* the addons of a call
ProbeAddonLists == UNION {[1..n -> AddonProbes] : n \in 0..MaxProbeAddons}

PrInit ==
    /\ pr_call = [op |-> "none", addons |-> <<>>]
    /\ pr_checks = <<>>
    /\ pr_ret = [exc |-> "none", b_any_cell_override |-> FALSE]

\* write_sheet: b_any_cell_override = any(...)
WriteSheetProbeAddons ==
    /\ pr_call.op = "none"
    /\ \E addons \in ProbeAddonLists :
          LET checks == any_cell_write_from(addons, 1, <<>>)
              last == IF checks = <<>> THEN [exc |-> "none", ret |-> FALSE]
                      ELSE checks[Len(checks)]
          IN  /\ pr_call' = [op |-> "write_sheet", addons |-> addons]
              /\ pr_checks' = checks
              /\ pr_ret' = [exc |-> last.exc,
                            b_any_cell_override |-> last.exc = "none" /\ last.ret]
    /\ UNCHANGED not_pr_vars

----------------------------------------------------------------------------
(* run_jobs (runner/runner.py): the main thread, the worker threads of the
   ThreadPoolExecutor, and a KeyboardInterrupt that may reach the main thread.
   Jobs are numbered 1..n_total in submission order; a job's id is its number. *)

\* l_failed.append((sid, str(e)))
\* (faulty variant: the list is started anew at every failure)
record_failure_bad(failed, job) == <<job>>
record_failure(failed, job) == Append(failed, job)

\* the RuntimeError of `if if_raise_on_failure and l_failed`: its message holds
\* num_failed and n_total
failure_error(failed, n_total) ==
    [type |-> "RuntimeError", num_failed |-> Len(failed), n_total |-> n_total]

\* what leaves run_jobs after the report is built
\* (faulty variant: if_raise_on_failure is not consulted)
exc_after_report_bad(call, failed) ==
    IF failed # <<>> THEN failure_error(failed, call.n_total) ELSE [type |-> "none"]
exc_after_report(call, failed) ==
    IF call.if_raise_on_failure /\ failed # <<>>
    THEN failure_error(failed, call.n_total)
    ELSE [type |-> "none"]

\* the calls: up to MaxJobs jobs, on each of which fn_worker returns or raises an
\* Exception, and 1..MaxWorkers worker threads
JobCalls ==
    UNION {[n_total : {n},
            outcomes : [1..n -> {"returns", "raises"}],
            max_workers : 1..MaxWorkers,
            if_raise_on_failure : BOOLEAN,
            if_raise_on_interrupt : BOOLEAN] : n \in 0..MaxJobs}

JobInit ==
    /\ job_pc = "idle"
    /\ job_call = [n_total |-> 0, outcomes |-> <<>>, max_workers |-> 1,
                   if_raise_on_failure |-> TRUE, if_raise_on_interrupt |-> TRUE]
    /\ job_state = <<>>
    /\ job_runs = <<>>
    /\ fin_initial = {}
    /\ fin_queue = <<>>
    /\ fail_order = <<>>
    /\ n_done = 0
    /\ l_done = <<>>
    /\ l_failed = <<>>
    /\ job_exc = [type |-> "none"]

\* run_jobs up to the end of the dict comprehension: every job is submitted; with
\* no job the empty report is returned at once
RunJobsSubmit ==
    /\ job_pc = "idle"
    /\ \E call \in JobCalls :
          /\ job_call' = call
          /\ job_state' = [j \in 1..call.n_total |-> "queued"]
          /\ job_runs' = [j \in 1..call.n_total |-> 0]
          /\ job_pc' = IF call.n_total = 0 THEN "returned" ELSE "submitted"
    /\ UNCHANGED <<fin_initial, fin_queue, fail_order, n_done, l_done, l_failed,
                   job_exc>>
    /\ UNCHANGED not_job_vars

\* a worker thread takes the oldest queued job and starts fn_worker on it
WorkerStart ==
    /\ \E j \in DOMAIN job_state :
          /\ job_state[j] = "queued"
          /\ \A i \in 1..(j - 1) : job_state[i] # "queued"
          /\ Cardinality({i \in DOMAIN job_state : job_state[i] = "running"})
                < job_call.max_workers
          /\ job_state' = [job_state EXCEPT ![j] = "running"]
          /\ job_runs' = [job_runs EXCEPT ![j] = @ + 1]
    /\ UNCHANGED <<job_pc, job_call, fin_initial, fin_queue, fail_order, n_done,
                   l_done, l_failed, job_exc>>
    /\ UNCHANGED not_job_vars

\* fn_worker returns or raises on a job: its future is finished, and a waiting
\* as_completed is told
WorkerFinish ==
    /\ \E j \in DOMAIN job_state :
          /\ job_state[j] = "running"
          /\ job_state' = [job_state EXCEPT ![j] = "finished"]
          /\ fail_order' = IF job_call.outcomes[j] = "raises"
                           THEN Append(fail_order, j) ELSE fail_order
          /\ fin_queue' = IF job_pc = "collect" THEN Append(fin_queue, j)
                          ELSE fin_queue
    /\ UNCHANGED <<job_pc, job_call, job_runs, fin_initial, n_done, l_done, l_failed,
                   job_exc>>
    /\ UNCHANGED not_job_vars

\* as_completed(dict_futs) is entered: the futures finished by now form a set
AsCompletedBegin ==
    /\ job_pc = "submitted"
    /\ fin_initial' = {j \in DOMAIN job_state : job_state[j] = "finished"}
    /\ job_pc' = "collect"
    /\ UNCHANGED <<job_call, job_state, job_runs, fin_queue, fail_order, n_done,
                   l_done, l_failed, job_exc>>
    /\ UNCHANGED not_job_vars

\* one turn of the for loop: as_completed yields a future of the set in any order,
\* then the others in completion order; fut.result() returns or raises
CollectJob ==
    /\ job_pc = "collect"
    /\ \E j \in DOMAIN job_state :
          /\ IF fin_initial # {} THEN j \in fin_initial
             ELSE fin_queue # <<>> /\ j = Head(fin_queue)
          /\ fin_initial' = fin_initial \ {j}
          /\ fin_queue' = IF fin_initial # {} THEN fin_queue ELSE Tail(fin_queue)
          /\ job_state' = [job_state EXCEPT ![j] = "collected"]
          /\ IF job_call.outcomes[j] = "returns"
             THEN /\ n_done' = n_done + 1
                  /\ l_done' = Append(l_done, j)
                  /\ UNCHANGED l_failed
             ELSE /\ l_failed' = record_failure(l_failed, j)
                  /\ UNCHANGED <<n_done, l_done>>
    /\ UNCHANGED <<job_pc, job_call, job_runs, fail_order, job_exc>>
    /\ UNCHANGED not_job_vars

\* as_completed is exhausted: the executor is shut down, the report is built and
\* run_jobs returns it or raises
RunJobsFinish ==
    /\ job_pc = "collect"
    /\ \A j \in DOMAIN job_state : job_state[j] = "collected"
    /\ job_exc' = exc_after_report(job_call, l_failed)
    /\ job_pc' = IF job_exc'.type = "none" THEN "returned" ELSE "raised"
    /\ UNCHANGED <<job_call, job_state, job_runs, fin_initial, fin_queue, fail_order,
                   n_done, l_done, l_failed>>
    /\ UNCHANGED not_job_vars

\* a KeyboardInterrupt reaches the main thread in the try block: the queued jobs
\* are cancelled, the running ones go on, and run_jobs re-raises or goes on to the
\* report of what it has collected
RunJobsInterrupt ==
    /\ job_pc \in {"submitted", "collect"}
    /\ job_state' = [j \in DOMAIN job_state |->
                        IF job_state[j] = "queued" THEN "cancelled" ELSE job_state[j]]
    /\ job_exc' = IF job_call.if_raise_on_interrupt
                  THEN [type |-> "KeyboardInterrupt"]
                  ELSE exc_after_report(job_call, l_failed)
    /\ job_pc' = "interrupted"
    /\ UNCHANGED <<job_call, job_runs, fin_initial, fin_queue, fail_order, n_done,
                   l_done, l_failed>>
    /\ UNCHANGED not_job_vars

----------------------------------------------------------------------------
(* copy_tree (io/fs/copy.py) on a source directory that holds at most a file
   "a" and a sub-directory "d" with at most a file "b", without symbolic links
   and without include or exclude patterns.  Destination paths are written
   relative to dir_destination: "" is dir_destination itself. *)

DstPaths == {"", "a", "b", "d", "d/b"}

\* Path.parent
path_parent(p) == IF p = "d/b" THEN "d" ELSE ""

\* a destination where nothing exists
EmptyDestination == [p \in DstPaths |-> "absent"]

\* Path.mkdir(parents=True, exist_ok=True); the directory that holds
\* dir_destination exists
RECURSIVE mkdir_parents(_, _)
mkdir_parents(fs, p) ==
    IF fs[p] = "dir" THEN [fs |-> fs, ok |-> TRUE]
    ELSE IF fs[p] # "absent" THEN [fs |-> fs, ok |-> FALSE]
    ELSE IF p = "" THEN [fs |-> [fs EXCEPT ![p] = "dir"], ok |-> TRUE]
    ELSE LET r == mkdir_parents(fs, path_parent(p))
         IN  IF r.ok THEN [fs |-> [r.fs EXCEPT ![p] = "dir"], ok |-> TRUE] ELSE r

is_depth_within_limit(depth_value, depth_limit, rule_depth_limit) ==
    IF depth_limit = <<>> THEN TRUE
    ELSE IF rule_depth_limit = "at_most" THEN depth_value <= depth_limit[1]
    ELSE depth_value = depth_limit[1]

\* should_skip_dir_conflict: "go" for a False result, else what was reported
should_skip_dir_conflict(entry, rule_conflict) ==
    IF entry = "absent" THEN "go"
    ELSE IF entry \in {"old", "new"} THEN "error"
    ELSE IF rule_conflict = "skip" THEN "skip"
    ELSE IF rule_conflict = "error" THEN "error"
    ELSE "go"

\* should_skip_file_conflict: "go" for a False result, else what was reported
should_skip_file_conflict(entry, rule_conflict) ==
    IF entry = "absent" THEN "go"
    ELSE IF entry = "dir" THEN "error"
    ELSE IF rule_conflict = "skip" THEN "skip"
    ELSE IF rule_conflict = "error" THEN "error"
    ELSE "go"

add_skipped(st) == [st EXCEPT !.report.skipped = @ + 1]
add_error(st) == [st EXCEPT !.report.errors = @ + 1]
add_copied(st) == [st EXCEPT !.report.copied = @ + 1]

\* the HandleDirs block for the plain sub-directory "d" of the source root;
\* st is [fs, futures, report, kept]
handle_dir(st, call) ==
    IF call.if_keep_tree
       /\ is_depth_within_limit(1, call.depth_limit, call.rule_depth_limit)
    THEN LET verdict == should_skip_dir_conflict(st.fs["d"], call.rule_conflict_dir)
         IN  IF verdict = "skip" THEN add_skipped(st)
             ELSE IF verdict = "error" THEN add_error(st)
             ELSE IF call.if_dry_run THEN [add_skipped(st) EXCEPT !.kept = TRUE]
             ELSE LET mk == mkdir_parents(st.fs, "d")
                  IN  IF mk.ok
                      THEN [add_copied(st) EXCEPT !.fs = mk.fs, !.kept = TRUE]
                      ELSE add_error(st)
    ELSE [st EXCEPT !.kept = TRUE]

\* the HandleFiles block for one plain file: rel is its path below the source
\* root, name its basename, depth its n_depth_file
handle_file(st, call, rel, name, depth) ==
    IF call.depth_limit # <<>>
       /\ ~is_depth_within_limit(depth, call.depth_limit, call.rule_depth_limit)
    THEN st
    ELSE LET path_file_dst == IF call.if_keep_tree THEN rel ELSE name
             mk == IF call.if_keep_tree
                   THEN mkdir_parents(st.fs, path_parent(path_file_dst))
                   ELSE [fs |-> st.fs, ok |-> TRUE]
             verdict == should_skip_file_conflict(mk.fs[path_file_dst],
                                                  call.rule_conflict_file)
         IN  IF ~mk.ok THEN add_error(st)
             ELSE IF verdict = "skip" THEN [add_skipped(st) EXCEPT !.fs = mk.fs]
             ELSE IF verdict = "error" THEN [add_error(st) EXCEPT !.fs = mk.fs]
             ELSE IF call.if_dry_run THEN [add_skipped(st) EXCEPT !.fs = mk.fs]
             ELSE [st EXCEPT !.fs = mk.fs, !.futures = @ \cup {path_file_dst}]

\* the destinations a call can find: nothing, a file in the place of
\* dir_destination, or a directory with some of the paths taken
Destinations ==
    {EmptyDestination, [EmptyDestination EXCEPT ![""] = "old"]}
    \cup {fs \in [DstPaths -> {"absent", "dir", "old"}] :
             /\ fs[""] = "dir"
             /\ fs["b"] # "dir" /\ fs["d/b"] # "dir"
             /\ fs["d/b"] # "absent" => fs["d"] = "dir"}

\* the source trees: "d" holds "b" only if "d" is there
SourceTrees ==
    {t \in [has_a : BOOLEAN, has_d : BOOLEAN, has_b : BOOLEAN] : t.has_b => t.has_d}

CopyTreeCalls ==
    [tree : SourceTrees,
     rule_conflict_file : {"skip", "overwrite", "error"},
     rule_conflict_dir : {"skip", "merge", "error"},
     depth_limit : {<<>>} \cup {<<n>> : n \in 1..MaxDepthLimit},
     rule_depth_limit : {"at_most", "exact"},
     if_keep_tree : BOOLEAN,
     if_dry_run : BOOLEAN]

CpInit ==
    /\ cp_pc = "idle"
    /\ cp_call = [tree |-> [has_a |-> FALSE, has_d |-> FALSE, has_b |-> FALSE],
                  rule_conflict_file |-> "skip", rule_conflict_dir |-> "skip",
                  depth_limit |-> <<>>, rule_depth_limit |-> "at_most",
                  if_keep_tree |-> TRUE, if_dry_run |-> FALSE]
    /\ cp_fs0 = EmptyDestination
    /\ cp_fs = EmptyDestination
    /\ cp_futures = {}
    /\ cp_kept = FALSE
    /\ cp_report = [copied |-> 0, skipped |-> 0, errors |-> 0]

\* copy_tree up to the walk: the depth arguments are validated and
\* dir_destination is made
CopyTreeBegin ==
    /\ cp_pc = "idle"
    /\ \E call \in CopyTreeCalls, fs \in Destinations :
          LET mk == mkdir_parents(fs, "")
          IN  /\ cp_call' = call
              /\ cp_fs0' = fs
              /\ IF call.depth_limit = <<>> /\ call.rule_depth_limit = "exact"
                 THEN cp_pc' = "raised" /\ cp_fs' = fs
                 ELSE /\ cp_fs' = mk.fs
                      /\ cp_pc' = IF mk.ok THEN "walk_root" ELSE "raised"
    /\ UNCHANGED <<cp_futures, cp_kept, cp_report>>
    /\ UNCHANGED not_cp_vars

\* the first turn of os.walk: the source root, its sub-directory and its file
CopyTreeWalkRoot ==
    /\ cp_pc = "walk_root"
    /\ LET st0 == [fs |-> cp_fs, futures |-> cp_futures, report |-> cp_report,
                   kept |-> FALSE]
           st1 == IF cp_call.tree.has_d THEN handle_dir(st0, cp_call) ELSE st0
           st2 == IF cp_call.tree.has_a THEN handle_file(st1, cp_call, "a", "a", 1)
                  ELSE st1
       IN  /\ cp_fs' = st2.fs
           /\ cp_futures' = st2.futures
           /\ cp_report' = st2.report
           /\ cp_kept' = st2.kept
           /\ cp_pc' = IF st2.kept THEN "walk_sub" ELSE "await"
    /\ UNCHANGED <<cp_call, cp_fs0>>
    /\ UNCHANGED not_cp_vars

\* the second turn of os.walk: the sub-directory that was kept, and its file
CopyTreeWalkSub ==
    /\ cp_pc = "walk_sub"
    /\ LET st0 == [fs |-> cp_fs, futures |-> cp_futures, report |-> cp_report,
                   kept |-> cp_kept]
           st1 == IF cp_call.tree.has_b
                  THEN handle_file(st0, cp_call, "d/b", "b", 2) ELSE st0
       IN  /\ cp_fs' = st1.fs
           /\ cp_futures' = st1.futures
           /\ cp_report' = st1.report
    /\ cp_pc' = "await"
    /\ UNCHANGED <<cp_call, cp_fs0, cp_kept>>
    /\ UNCHANGED not_cp_vars

\* a worker thread runs one submitted shutil.copy2
CopyWorker ==
    /\ \E p \in cp_futures :
          /\ cp_fs' = [cp_fs EXCEPT ![p] = "new"]
          /\ cp_futures' = cp_futures \ {p}
          /\ cp_report' = [cp_report EXCEPT !.copied = @ + 1]
    /\ UNCHANGED <<cp_pc, cp_call, cp_fs0, cp_kept>>
    /\ UNCHANGED not_cp_vars

\* every future is done: the report is built and returned
CopyTreeEnd ==
    /\ cp_pc = "await"
    /\ cp_futures = {}
    /\ cp_pc' = "returned"
    /\ UNCHANGED <<cp_call, cp_fs0, cp_fs, cp_futures, cp_kept, cp_report>>
    /\ UNCHANGED not_cp_vars

----------------------------------------------------------------------------
(* derive_contiguous_ranges (util.py) *)

\* if _idx == n_idx_end + 1
\* (faulty variant: every larger index continues the run)
idx_continues_run_bad(idx, n_idx_end) == idx > n_idx_end
idx_continues_run(idx, n_idx_end) == idx = n_idx_end + 1

\* the for loop over sorted_indices[1:], from position k on, and the final append
RECURSIVE derive_contiguous_ranges_from(_, _, _, _, _)
derive_contiguous_ranges_from(sorted_indices, k, n_idx_start, n_idx_end, l_contiguous_ranges) ==
    IF k > Len(sorted_indices)
    THEN Append(l_contiguous_ranges, <<n_idx_start, n_idx_end>>)
    ELSE IF idx_continues_run(sorted_indices[k], n_idx_end)
    THEN derive_contiguous_ranges_from(sorted_indices, k + 1, n_idx_start,
                                       sorted_indices[k], l_contiguous_ranges)
    ELSE derive_contiguous_ranges_from(
             sorted_indices, k + 1, sorted_indices[k], sorted_indices[k],
             Append(l_contiguous_ranges, <<n_idx_start, n_idx_end>>))

\* derive_contiguous_ranges(sorted_indices)
derive_contiguous_ranges(sorted_indices) ==
    IF sorted_indices = <<>> THEN <<>>
    ELSE derive_contiguous_ranges_from(sorted_indices, 2, sorted_indices[1],
                                       sorted_indices[1], <<>>)

\* the strictly increasing sequences of indices 0..MaxIndex
SortedIndexLists == {sorted_tuple(idx) : idx \in SUBSET (0..MaxIndex)}

RngInit ==
    /\ rng_call = [op |-> "none", sorted_indices |-> <<>>]
    /\ rng_ret = <<>>

\* a call derive_contiguous_ranges(sorted_indices)
CallDeriveContiguousRanges ==
    /\ \E sorted_indices \in SortedIndexLists :
          /\ rng_call' = [op |-> "derive_contiguous_ranges",
                          sorted_indices |-> sorted_indices]
          /\ rng_ret' = derive_contiguous_ranges(sorted_indices)
    /\ UNCHANGED not_rng_vars

----------------------------------------------------------------------------
(* Specifications *)

\* write_sheet plans the slices of one table
InitSlices == SliceInit /\ NameInit /\ HdrInit /\ FmtInit /\ SheetInit /\ ChunkInit /\ RngInit /\ SanInit /\ MrgInit /\ OvInit /\ AfInit /\ PrInit /\ JobInit /\ CpInit /\ SvcInit
NextSlices == GenerateSheetSlices
SpecSlices == InitSlices /\ [][NextSlices]_vars

\* write_sheet plans the slices of one table of about a million rows or more
NextSlicesLarge == GenerateSheetSlicesLarge
SpecSlicesLarge == InitSlices /\ [][NextSlicesLarge]_vars

\* one writer issues sheet names
InitNames == SliceIdle /\ report_warnings = <<>> /\ NameInit /\ HdrInit /\ FmtInit /\ SheetInit /\ ChunkInit /\ RngInit /\ SanInit /\ MrgInit /\ OvInit /\ AfInit /\ PrInit /\ JobInit /\ CpInit /\ SvcInit
NextNames == RequestSheetName \/ BumpStep \/ BumpReturn
SpecNames == InitNames /\ [][NextNames]_vars

\* one call of a header planner
InitHeader == SliceIdle /\ report_warnings = <<>> /\ NameInit /\ HdrInit /\ FmtInit /\ SheetInit /\ ChunkInit /\ RngInit /\ SanInit /\ MrgInit /\ OvInit /\ AfInit /\ PrInit /\ JobInit /\ CpInit /\ SvcInit
NextHeader ==
    \/ CallPlanHorizontalMerges
    \/ CallPlanVerticalBorders
    \/ CallApplyBlankout
    \/ CallWriteHeader
SpecHeader == InitHeader /\ [][NextHeader]_vars

\* write_sheet plans the column formats of one table
InitFormats == SliceIdle /\ report_warnings = <<>> /\ NameInit /\ HdrInit /\ FmtInit /\ SheetInit /\ ChunkInit /\ RngInit /\ SanInit /\ MrgInit /\ OvInit /\ AfInit /\ PrInit /\ JobInit /\ CpInit /\ SvcInit
NextFormats == PlanColumnFormats
SpecFormats == InitFormats /\ [][NextFormats]_vars

\* one write_sheet call on a writer that wrote no sheet, a sheet S, or sheets S, S__2
InitSheet ==
    /\ SliceIdle /\ report_warnings = <<>> /\ HdrInit /\ FmtInit /\ SheetInit
    /\ ChunkInit /\ RngInit /\ SanInit /\ MrgInit /\ OvInit /\ AfInit /\ PrInit /\ JobInit /\ CpInit /\ SvcInit
    /\ existing_sheet_names \in
          {{}, {SheetName}, {SheetName, bump_candidate_name(SheetName, 2)}}
    /\ name_pc = "idle"
    /\ c_base_name = <<>>
    /\ bump_i = 0
    /\ c_candidate_name = <<>>
    /\ names_returned = existing_sheet_names
    /\ n_names_returned = Cardinality(existing_sheet_names)
    /\ name_last = <<>>
NextSheet ==
    \/ WriteSheetBegin
    \/ WriteSheetAddWorksheet
    \/ WriteSheetHeader
    \/ WriteSheetBody
SpecSheet == InitSheet /\ [][NextSheet]_vars

\* write_sheet writes the data rows of one slice in chunks
InitChunks ==
    SliceIdle /\ report_warnings = <<>> /\ NameInit /\ HdrInit /\ FmtInit /\ SheetInit
    /\ ChunkInit /\ RngInit /\ SanInit /\ MrgInit /\ OvInit /\ AfInit /\ PrInit /\ JobInit /\ CpInit /\ SvcInit
NextChunks == RowChunksBegin \/ RowChunkYield \/ RowChunkResume \/ RowChunksEnd
SpecChunks == InitChunks /\ [][NextChunks]_vars

\* write_sheet is called with addons that override column formats
InitOverrides == InitChunks
NextOverrides ==
    WriteSheetOverridesBegin \/ WriteSheetOverrideAddon \/ WriteSheetOverridesEnd
SpecOverrides == InitOverrides /\ [][NextOverrides]_vars

\* write_sheet is called with autofit arguments
InitAutofit == InitChunks
NextAutofit == WriteSheetAutofit
SpecAutofit == InitAutofit /\ [][NextAutofit]_vars

\* write_sheet is called with addons whose capability probes are run
InitProbe == InitChunks
NextProbe == WriteSheetProbeAddons
SpecProbe == InitProbe /\ [][NextProbe]_vars

\* one call of run_jobs with its worker threads
InitJobs == InitChunks
NextJobs ==
    \/ RunJobsSubmit \/ WorkerStart \/ WorkerFinish \/ AsCompletedBegin
    \/ CollectJob \/ RunJobsFinish \/ RunJobsInterrupt
SpecJobs == InitJobs /\ [][NextJobs]_vars

\* one call of copy_tree with its worker threads
InitCopy == InitChunks
NextCopy ==
    \/ CopyTreeBegin \/ CopyTreeWalkRoot \/ CopyTreeWalkSub \/ CopyWorker
    \/ CopyTreeEnd
SpecCopy == InitCopy /\ [][NextCopy]_vars

\* the two planners side by side
InitPlanners == InitSlices
NextPlanners == GenerateSheetSlicesBoth
SpecPlanners == InitPlanners /\ [][NextPlanners]_vars

\* SpecCellFormat.merge is called on two formats
InitMerge == InitChunks
NextMerge == CallMerge
SpecMerge == InitMerge /\ [][NextMerge]_vars

\* sanitize_sheet_name is called again and again
InitSanitize == InitChunks
NextSanitize == CallSanitizeSheetName
SpecSanitize == InitSanitize /\ [][NextSanitize]_vars

\* derive_contiguous_ranges is called again and again
InitRanges ==
    SliceIdle /\ report_warnings = <<>> /\ NameInit /\ HdrInit /\ FmtInit /\ SheetInit
    /\ ChunkInit /\ RngInit /\ SanInit /\ MrgInit /\ OvInit /\ AfInit /\ PrInit /\ JobInit /\ CpInit /\ SvcInit
NextRanges == CallDeriveContiguousRanges
SpecRanges == InitRanges /\ [][NextRanges]_vars

\* the same, the for loop of write_sheet being run on: the interpreter keeps asking
\* for the next pair, resumes the generator after each pair, and leaves the loop when
\* the generator returns
SpecChunksFair ==
    /\ InitChunks /\ [][NextChunks]_vars
    /\ WF_vars(RowChunkYield) /\ WF_vars(RowChunkResume) /\ WF_vars(RowChunksEnd)

----------------------------------------------------------------------------
(* Claims about generate_sheet_slices, checked under SpecSlices *)

\* the call returned a list of slices
SlicesReturned == slice_pc = "done" /\ slice_ret.exc = "none"

\* the header height is one generate_sheet_slices accepts
HeaderHeightAccepted ==
    1 <= slice_call.height_header /\ slice_call.height_header < N_NROWS_EXCEL_MAX

\* cell (row, col) of the table lies in the row and column range of slice p
InSlice(p, row, col) ==
    /\ p.row_start_inclusive <= row /\ row < p.row_end_exclusive
    /\ p.col_start_inclusive <= col /\ col < p.col_end_exclusive

\* C1: for every height_df >= 0, width_df >= 0 and header height h with
\* 1 <= h < N_NROWS_EXCEL_MAX the call returns slices that tile the table: every cell
\* of [0, height_df) x [0, width_df) lies in exactly one slice, and a slice whose
\* range holds any cell lies inside the table.
C1_SlicesTileTable ==
    (slice_pc = "done" /\ HeaderHeightAccepted) =>
        /\ slice_ret.exc = "none"
        /\ LET parts == slice_ret.l_sheet_parts
           IN  /\ \A col \in 0..(slice_call.width_df - 1) :
                     \A row \in 0..(slice_call.height_df - 1) :
                        Cardinality({k \in DOMAIN parts : InSlice(parts[k], row, col)}) = 1
               /\ \A k \in DOMAIN parts :
                     (/\ parts[k].row_start_inclusive < parts[k].row_end_exclusive
                      /\ parts[k].col_start_inclusive < parts[k].col_end_exclusive)
                     => /\ 0 <= parts[k].row_start_inclusive
                        /\ parts[k].row_end_exclusive <= slice_call.height_df
                        /\ 0 <= parts[k].col_start_inclusive
                        /\ parts[k].col_end_exclusive <= slice_call.width_df

\* C1 witness: a table split both by rows and by columns, the last slab of each
\* kind being a partial one
C1_Witness ==
    /\ SlicesReturned
    /\ slice_call.width_df = N_NCOLS_EXCEL_MAX + 1
    /\ slice_call.height_df = MaxDataRows + 1
    /\ Len(slice_ret.l_sheet_parts) = 4

\* the size limits of a slice
SliceWithinLimits(p) ==
    /\ p.row_end_exclusive - p.row_start_inclusive
          <= N_NROWS_EXCEL_MAX - slice_call.height_header
    /\ p.col_end_exclusive - p.col_start_inclusive <= N_NCOLS_EXCEL_MAX

\* C3 as stated: every returned slice has 0 <= row_start < row_end,
\* 0 <= col_start < col_end and is within the row and column limits.
C3_SliceRangesNonEmpty ==
    SlicesReturned =>
        \A k \in DOMAIN slice_ret.l_sheet_parts :
            LET p == slice_ret.l_sheet_parts[k]
            IN  /\ 0 <= p.row_start_inclusive
                /\ p.row_start_inclusive < p.row_end_exclusive
                /\ 0 <= p.col_start_inclusive
                /\ p.col_start_inclusive < p.col_end_exclusive
                /\ SliceWithinLimits(p)

\* C3 amended: every returned slice has 0 <= row_start <= row_end, with
\* row_start < row_end unless the table has no data row (then the row range is the
\* empty range (0, 0)), 0 <= col_start < col_end, and is within the row and column
\* limits.
C3_SliceRangesAmended ==
    SlicesReturned =>
        \A k \in DOMAIN slice_ret.l_sheet_parts :
            LET p == slice_ret.l_sheet_parts[k]
            IN  /\ 0 <= p.row_start_inclusive
                /\ IF slice_call.height_df >= 1
                   THEN p.row_start_inclusive < p.row_end_exclusive
                   ELSE p.row_start_inclusive = 0 /\ p.row_end_exclusive = 0
                /\ 0 <= p.col_start_inclusive
                /\ p.col_start_inclusive < p.col_end_exclusive
                /\ SliceWithinLimits(p)

\* C3 witness: a slice that is exactly as tall and as wide as the limits allow,
\* in a table that had to be split
C3_Witness ==
    /\ SlicesReturned
    /\ Len(slice_ret.l_sheet_parts) > 1
    /\ \E k \in DOMAIN slice_ret.l_sheet_parts :
          LET p == slice_ret.l_sheet_parts[k]
          IN  /\ p.row_end_exclusive - p.row_start_inclusive
                    = N_NROWS_EXCEL_MAX - slice_call.height_header
              /\ p.col_end_exclusive - p.col_start_inclusive = N_NCOLS_EXCEL_MAX

\* C4: the returned list is in columns-outer, rows-inner order: of two slices the
\* earlier one has the smaller col_start, or the same col_start and the smaller
\* row_start.
C4_ColumnsOuterRowsInner ==
    SlicesReturned =>
        LET parts == slice_ret.l_sheet_parts
        IN  \A i, j \in DOMAIN parts :
               i < j =>
                  \/ parts[i].col_start_inclusive < parts[j].col_start_inclusive
                  \/ /\ parts[i].col_start_inclusive = parts[j].col_start_inclusive
                     /\ parts[i].row_start_inclusive < parts[j].row_start_inclusive

\* C4 witness: several column slabs of several row slabs each
C4_Witness ==
    /\ SlicesReturned
    /\ \E i, j \in DOMAIN slice_ret.l_sheet_parts :
          /\ slice_ret.l_sheet_parts[i].col_start_inclusive
                # slice_ret.l_sheet_parts[j].col_start_inclusive
          /\ slice_ret.l_sheet_parts[i].row_start_inclusive
                # slice_ret.l_sheet_parts[j].row_start_inclusive

\* C5: a single slice keeps the base name unchanged; of several slices the k-th
\* (1-based) is named by a prefix of the base name followed by _k, in at most
\* N_LEN_EXCEL_SHEET_NAME_MAX characters.
C5_SliceNames ==
    SlicesReturned =>
        LET parts == slice_ret.l_sheet_parts
            base == slice_call.sheet_name
        IN  /\ Len(parts) = 1 => parts[1].sheet_name = base
            /\ Len(parts) > 1 =>
                  \A k \in DOMAIN parts :
                     /\ \E m \in 0..Len(base) :
                           parts[k].sheet_name = SubSeq(base, 1, m) \o <<"_">> \o Dec(k)
                     /\ Len(parts[k].sheet_name) <= N_LEN_EXCEL_SHEET_NAME_MAX

\* C5 witness: a base name of full length split into ten or more slices, so that
\* both a two- and a three-character suffix shorten it
C5_Witness ==
    /\ SlicesReturned
    /\ Len(slice_call.sheet_name) = N_LEN_EXCEL_SHEET_NAME_MAX
    /\ Len(slice_ret.l_sheet_parts) >= 10
    /\ Len(slice_ret.l_sheet_parts[10].sheet_name) = N_LEN_EXCEL_SHEET_NAME_MAX
    /\ slice_ret.l_sheet_parts[1].sheet_name # slice_ret.l_sheet_parts[10].sheet_name

\* C6: a table with no data row, any width_df >= 0 and an accepted header height
\* gets at least one slice.
C6_ZeroRowTableGetsSlice ==
    (slice_pc = "done" /\ HeaderHeightAccepted /\ slice_call.height_df = 0) =>
        /\ slice_ret.exc = "none"
        /\ Len(slice_ret.l_sheet_parts) >= 1

\* C14: generate_sheet_slices appends exactly one warning to the report's warnings
\* when it returns more than one slice, and leaves them unchanged when it returns a
\* single slice.
C14_OneWarningOnSplit ==
    SlicesReturned =>
        /\ Len(slice_ret.l_sheet_parts) > 1 =>
              /\ Len(report_warnings) = Len(slice_call.warnings_before) + 1
              /\ SubSeq(report_warnings, 1, Len(slice_call.warnings_before))
                    = slice_call.warnings_before
              /\ report_warnings[Len(report_warnings)]
                    = overflow_warning(Len(slice_ret.l_sheet_parts))
        /\ Len(slice_ret.l_sheet_parts) = 1 =>
              report_warnings = slice_call.warnings_before

\* C14 witness: a split was reported after a warning the report already held
C14_Witness ==
    /\ SlicesReturned
    /\ Len(slice_ret.l_sheet_parts) = 3
    /\ slice_call.warnings_before = <<dtype_warning>>
    /\ Len(report_warnings) = 2

\* C15: generate_sheet_slices raises ValueError, returning no slice and recording
\* no warning, whenever height_header <= 0 or height_header > N_NROWS_EXCEL_MAX.
C15_BadHeaderHeightRaises ==
    (/\ slice_pc = "done"
     /\ \/ slice_call.height_header <= 0
        \/ slice_call.height_header > N_NROWS_EXCEL_MAX) =>
        /\ slice_ret.exc = "ValueError"
        /\ slice_ret.l_sheet_parts = <<>>
        /\ report_warnings = slice_call.warnings_before

\* C15 witness: the call was rejected for a header of no row, for a table that
\* would have been split had the height been accepted
C15_Witness ==
    /\ slice_pc = "done"
    /\ slice_call.height_header = 0
    /\ slice_call.height_df = MaxHeightDf
    /\ slice_ret.exc = "ValueError"
    /\ slice_call.warnings_before = <<dtype_warning>>

----------------------------------------------------------------------------
(* Claims about the slices of tall tables, checked under SpecSlicesLarge *)

\* ceil(a / b) for a >= 0, b >= 1
CeilDiv(a, b) == (a + b - 1) \div b

\* C16: for height_df >= 1 and width_df >= 1 generate_sheet_slices returns exactly
\* ceil(height_df / (N_NROWS_EXCEL_MAX - height_header)) row slabs times
\* ceil(width_df / N_NCOLS_EXCEL_MAX) column slabs; height_df = 2,000,000, width_df = 5,
\* height_header = 1 and the name Base give exactly the 2 slices Base_1, Base_2.
C16_SliceCount ==
    (SlicesReturned /\ slice_call.height_df >= 1 /\ slice_call.width_df >= 1) =>
        /\ Len(slice_ret.l_sheet_parts)
              = CeilDiv(slice_call.height_df, N_NROWS_EXCEL_MAX - slice_call.height_header)
                * CeilDiv(slice_call.width_df, N_NCOLS_EXCEL_MAX)
        /\ (/\ slice_call.height_df = 2000000
            /\ slice_call.width_df = 5
            /\ slice_call.height_header = 1
            /\ slice_call.sheet_name = <<"B", "a", "s", "e">>) =>
              /\ Len(slice_ret.l_sheet_parts) = 2
              /\ slice_ret.l_sheet_parts[1].sheet_name = <<"B", "a", "s", "e", "_", "1">>
              /\ slice_ret.l_sheet_parts[2].sheet_name = <<"B", "a", "s", "e", "_", "2">>

\* C16 witness: the table of 2,000,000 rows and 5 columns under a header of one row
\* was split in two by rows
C16_Witness ==
    /\ SlicesReturned
    /\ slice_call.height_df = 2000000
    /\ slice_call.width_df = 5
    /\ slice_call.height_header = 1
    /\ Len(slice_ret.l_sheet_parts) = 2
    /\ slice_ret.l_sheet_parts[2].row_start_inclusive = N_NROWS_EXCEL_MAX - 1
    /\ slice_ret.l_sheet_parts[2].row_end_exclusive = 2000000

----------------------------------------------------------------------------
(* Claims about the sheet names a writer issues, checked under SpecNames *)

\* C2: the names returned for any sequence of requested names, each passed through
\* sanitize_sheet_name and then _create_unique_sheet_name, are pairwise distinct
\* (as many different names as names returned) and at most
\* N_LEN_EXCEL_SHEET_NAME_MAX characters long.
C2_IssuedNamesDistinctAndShort ==
    /\ Cardinality(names_returned) = n_names_returned
    /\ \A name \in names_returned : Len(name) <= N_LEN_EXCEL_SHEET_NAME_MAX

\* C2 witness: the loop returned its tenth candidate, which the cut to
\* N_LEN_EXCEL_SHEET_NAME_MAX characters shortened, after names were issued both
\* unchanged and with a __N suffix
C2_Witness ==
    /\ name_pc = "idle"
    /\ bump_i = 10
    /\ name_last = c_candidate_name
    /\ Len(c_base_name \o <<"_", "_">> \o Dec(bump_i)) > N_LEN_EXCEL_SHEET_NAME_MAX
    /\ n_names_returned = MaxIssued

----------------------------------------------------------------------------
(* Claims about the header planners, checked under SpecHeader *)

\* number of columns of a grid; 0 for the empty grid
GridCols(g) == IF g = <<>> THEN 0 ELSE Len(g[1])

\* rows row_start..row_end of column col of grid g form a vertical run: 2 or more
\* consecutive rows holding the same non-empty value, not extendable up or down
IsVerticalRun(g, col, row_start, row_end) ==
    /\ row_start < row_end
    /\ cell(g, row_start, col) # ""
    /\ \A r \in row_start..row_end : cell(g, r, col) = cell(g, row_start, col)
    /\ row_start = 0 \/ cell(g, row_start - 1, col) # cell(g, row_start, col)
    /\ row_end = Len(g) - 1 \/ cell(g, row_end + 1, col) # cell(g, row_start, col)

\* columns col_start..col_end of row `row` of grid g form a horizontal run: 2 or
\* more adjacent cells holding the same non-empty string, not extendable left or right
IsHorizontalRun(g, row, col_start, col_end) ==
    /\ col_start < col_end
    /\ cell(g, row, col_start) # ""
    /\ \A c \in col_start..col_end : cell(g, row, c) = cell(g, row, col_start)
    /\ col_start = 0 \/ cell(g, row, col_start - 1) # cell(g, row, col_start)
    /\ col_end = GridCols(g) - 1 \/ cell(g, row, col_end + 1) # cell(g, row, col_start)

\* the merges a dict row -> list holds for one row
RowMerges(dict_merges, row) ==
    IF row \in DOMAIN dict_merges THEN dict_merges[row] ELSE <<>>

\* all merges of a dict row -> list
MergeSet(dict_merges) ==
    UNION {{dict_merges[row][k] : k \in DOMAIN dict_merges[row]} : row \in DOMAIN dict_merges}

\* C7: for every rectangular header grid and every row, the merges of
\* plan_horizontal_merges for the row have pairwise non-overlapping column ranges,
\* and every maximal run of 2 or more adjacent equal non-empty cells is covered by
\* exactly one merge, which spans exactly the run's columns.
C7_HorizontalMergesCoverRuns ==
    hdr_call.op = "plan_horizontal_merges" =>
        LET g == hdr_call.header_grid
        IN  \A row \in 0..(Len(g) - 1) :
               LET ms == RowMerges(hdr_merges, row)
               IN  /\ \A i, j \in DOMAIN ms :
                         i # j => \/ ms[i].col_idx_end < ms[j].col_idx_start
                                  \/ ms[j].col_idx_end < ms[i].col_idx_start
                   /\ \A col_start, col_end \in 0..(GridCols(g) - 1) :
                         IsHorizontalRun(g, row, col_start, col_end) =>
                            LET touching == {k \in DOMAIN ms :
                                               /\ ms[k].col_idx_start <= col_end
                                               /\ col_start <= ms[k].col_idx_end}
                            IN  /\ Cardinality(touching) = 1
                                /\ \A k \in touching :
                                      /\ ms[k].col_idx_start = col_start
                                      /\ ms[k].col_idx_end = col_end

\* C7 witness: a row with two runs, planned as two merges
C7_Witness ==
    /\ hdr_call.op = "plan_horizontal_merges"
    /\ \E row \in DOMAIN hdr_merges : Len(hdr_merges[row]) = 2

\* C8: after apply_vertical_run_text_blankout every vertical run of the input grid
\* has exactly one non-empty cell, its top cell, which still holds the original text.
C8_BlankoutKeepsTopOnly ==
    hdr_call.op = "apply_vertical_run_text_blankout" =>
        LET g == hdr_call.header_grid
        IN  \A col \in 0..(GridCols(g) - 1) :
               \A row_start, row_end \in 0..(Len(g) - 1) :
                  IsVerticalRun(g, col, row_start, row_end) =>
                     /\ cell(hdr_grid, row_start, col) = cell(g, row_start, col)
                     /\ \A r \in (row_start + 1)..row_end : cell(hdr_grid, r, col) = ""

\* C8 witness: a column with two runs, the first of three rows
C8_Witness ==
    /\ hdr_call.op = "apply_vertical_run_text_blankout"
    /\ \E col \in 0..(GridCols(hdr_call.header_grid) - 1) :
          /\ Len(hdr_call.header_grid) = 5
          /\ IsVerticalRun(hdr_call.header_grid, col, 0, 2)
          /\ IsVerticalRun(hdr_call.header_grid, col, 3, 4)
          /\ cell(hdr_grid, 4, col) = ""

\* the cells of the vertical runs of grid g
VerticalRunCells(g) ==
    {rc \in (0..(Len(g) - 1)) \X (0..(GridCols(g) - 1)) :
        \E row_start, row_end \in 0..(Len(g) - 1) :
           /\ IsVerticalRun(g, rc[2], row_start, row_end)
           /\ row_start <= rc[1] /\ rc[1] <= row_end}

\* C9: the map of plan_vertical_visual_merge_borders holds exactly the cells of the
\* vertical runs: the top row of a run has top=1, bottom=0, the bottom row top=0,
\* bottom=1, the rows between top=0, bottom=0, and left=right=1 throughout.
C9_BorderPlanOfRuns ==
    hdr_call.op = "plan_vertical_visual_merge_borders" =>
        LET g == hdr_call.header_grid
        IN  /\ DOMAIN hdr_borders = VerticalRunCells(g)
            /\ \A col \in 0..(GridCols(g) - 1) :
                  \A row_start, row_end \in 0..(Len(g) - 1) :
                     IsVerticalRun(g, col, row_start, row_end) =>
                        \A r \in row_start..row_end :
                           hdr_borders[<<r, col>>] =
                              [top |-> IF r = row_start THEN 1 ELSE 0,
                               bottom |-> IF r = row_end THEN 1 ELSE 0,
                               left |-> 1,
                               right |-> 1]

\* C9 witness: a run with a row between its top and its bottom, beside a cell in no run
C9_Witness ==
    /\ hdr_call.op = "plan_vertical_visual_merge_borders"
    /\ \E col \in 0..(GridCols(hdr_call.header_grid) - 1) :
          /\ Len(hdr_call.header_grid) = 4
          /\ IsVerticalRun(hdr_call.header_grid, col, 0, 2)
          /\ <<1, col>> \in DOMAIN hdr_borders
          /\ <<3, col>> \notin DOMAIN hdr_borders

\* _write_header planned the merges of a grid after its vertical blank-out
MergesPlannedAfterBlankout ==
    hdr_call.op = "_write_header" /\ hdr_exc = "none" /\ hdr_call.if_merge

\* C10 as stated: plan_horizontal_merges returns the same set of merges for the
\* grid after apply_vertical_run_text_blankout as for the grid before it.
C10_MergesSameAfterBlankout ==
    MergesPlannedAfterBlankout =>
        MergeSet(hdr_merges) = MergeSet(plan_horizontal_merges(hdr_call.header_grid))

\* merge m covers a cell that the blank-out cleared
MergeHitByBlankout(m) ==
    \E c \in m.col_idx_start..m.col_idx_end :
       cell(hdr_grid, m.row_idx_start, c) # cell(hdr_call.header_grid, m.row_idx_start, c)

\* C10 amended: every merge planned for the grid after the vertical blank-out lies
\* within a merge planned for the grid before it (same row, same text, column range
\* contained), and the two sets of merges are the same whenever the blank-out
\* cleared no cell of a merge planned before it.
C10_MergesAfterBlankoutWithinBefore ==
    MergesPlannedAfterBlankout =>
        LET before == MergeSet(plan_horizontal_merges(hdr_call.header_grid))
            after == MergeSet(hdr_merges)
        IN  /\ \A m \in after :
                  \E m0 \in before :
                     /\ m0.row_idx_start = m.row_idx_start
                     /\ m0.text = m.text
                     /\ m0.col_idx_start <= m.col_idx_start
                     /\ m.col_idx_end <= m0.col_idx_end
            /\ (\A m0 \in before : ~MergeHitByBlankout(m0)) => after = before

\* C10 witness: the blank-out cleared a cell of a merge planned before it, and the
\* rest of that run is still planned as a shorter merge
C10_Witness ==
    /\ MergesPlannedAfterBlankout
    /\ LET before == MergeSet(plan_horizontal_merges(hdr_call.header_grid))
           after == MergeSet(hdr_merges)
       IN  \E m \in after, m0 \in before :
              /\ MergeHitByBlankout(m0)
              /\ m0.row_idx_start = m.row_idx_start
              /\ m0.col_idx_start = m.col_idx_start
              /\ m.col_idx_end < m0.col_idx_end

\* the cells that a planned merge covers to the right of its leftmost cell
MergeCoveredCells ==
    {rc \in (0..(Len(hdr_call.header_grid) - 1)) \X (0..(GridCols(hdr_call.header_grid) - 1)) :
        \E m \in MergeSet(hdr_merges) :
           /\ m.row_idx_start = rc[1]
           /\ m.col_idx_start < rc[2] /\ rc[2] <= m.col_idx_end}

\* C11: in _write_header with merging enabled the cell-write pass writes no cell
\* that a horizontal merge covers to the right of its leftmost cell, and writes
\* every other cell of the header (the leftmost cell of each merge included)
\* exactly once.
C11_WritePassSkipsMergeCovered ==
    MergesPlannedAfterBlankout =>
        \A row \in 0..(Len(hdr_call.header_grid) - 1) :
           \A col \in 0..(GridCols(hdr_call.header_grid) - 1) :
              LET n_writes == Cardinality({k \in DOMAIN hdr_writes :
                                             /\ hdr_writes[k].row = row
                                             /\ hdr_writes[k].col = col})
              IN  IF <<row, col>> \in MergeCoveredCells
                  THEN n_writes = 0
                  ELSE n_writes = 1

\* C11 witness: a header with a merge of three cells whose two right cells were
\* skipped, beside a cell outside the merge that was written
C11_Witness ==
    /\ MergesPlannedAfterBlankout
    /\ \E m \in MergeSet(hdr_merges) :
          /\ m.col_idx_end = m.col_idx_start + 2
          /\ m.col_idx_end < GridCols(hdr_call.header_grid) - 1
          /\ \E k \in DOMAIN hdr_writes :
                hdr_writes[k].row = m.row_idx_start /\ hdr_writes[k].col = m.col_idx_start
          /\ \E k \in DOMAIN hdr_writes :
                hdr_writes[k].row = m.row_idx_start /\ hdr_writes[k].col = m.col_idx_end + 1
          /\ Len(hdr_writes) < Len(hdr_call.header_grid) * GridCols(hdr_call.header_grid)

----------------------------------------------------------------------------
(* Claims about the column formats, checked under SpecFormats *)

\* the format the precedence text < decimal < integer gives column col of the call;
\* an integer column is a numeric column that is among the integer columns
PrecedenceFormat(col) ==
    IF col \in tuple_set(fmt_call.cols_idx_numeric)
    THEN IF col \in tuple_set(fmt_call.cols_idx_integer) THEN cfg_fmt_int ELSE cfg_fmt_dec
    ELSE cfg_fmt_text

\* C12: every column of the sheet gets the format of the precedence
\* text < decimal < integer < override: a numeric column that is not an integer
\* column gets the decimal format, an integer column the integer format, every other
\* column the text format, with the column's override, if any, merged on top.
C12_FormatPrecedence ==
    fmt_call.op = "write_sheet" =>
        /\ Len(fmt_plan.fmts_by_col) = Len(fmt_call.schema)
        /\ \A col \in 0..(Len(fmt_call.schema) - 1) :
              fmt_plan.fmts_by_col[col + 1] =
                 IF col \in DOMAIN fmt_call.cols_fmt_overrides
                 THEN fmt_merge(PrecedenceFormat(col), fmt_call.cols_fmt_overrides[col])
                 ELSE PrecedenceFormat(col)

----------------------------------------------------------------------------
(* Claims about write_sheet, checked under SpecSheet *)

\* C13: whenever write_sheet raises ValueError (duplicate column names in the table
\* or the header, a header whose width differs from the table's, an empty header
\* grid), that call has created no worksheet: add_worksheet was not called.
C13_ValueErrorBeforeWorksheet ==
    ws_exc = "ValueError" => ws_worksheets = <<>>

\* C13 witness: ValueError was raised for a header with no row, its columns being
\* distinct and as many as the table's
C13_Witness ==
    /\ ws_pc = "raised"
    /\ ws_exc = "ValueError"
    /\ ws_call.df_header.given
    /\ Len(ws_call.df_header.rows) = 0
    /\ validate_unique_columns(ws_call.df_header.columns) = "none"
    /\ Len(ws_call.columns) = Len(ws_call.df_header.columns)
    /\ ws_worksheets = <<>>

----------------------------------------------------------------------------
(* Claims about the row chunks, checked under SpecChunks and SpecChunksFair *)

\* row `row` of the table lies in the row range of the yielded pair c
InChunk(c, row) == c.row_offset <= row /\ row < c.row_offset + c.height

\* C17: for a table of n rows and a chunk size s >= 1 the pairs yielded by
\* generate_row_chunks come in strictly increasing offset order starting at 0, hold
\* at most s rows each, do not overlap, and, once the generator has returned, cover
\* every row 0..n-1 exactly once.
C17_ChunksCoverRowsOnce ==
    (chunk_pc # "idle" /\ chunk_call.size_rows_chunk >= 1) =>
        /\ chunks_yielded # <<>> => chunks_yielded[1].row_offset = 0
        /\ \A k \in DOMAIN chunks_yielded :
              /\ chunks_yielded[k].height <= chunk_call.size_rows_chunk
              /\ chunks_yielded[k].row_offset + chunks_yielded[k].height
                    <= chunk_call.height_df
              /\ k > 1 => chunks_yielded[k - 1].row_offset + chunks_yielded[k - 1].height
                             <= chunks_yielded[k].row_offset
              /\ k > 1 => chunks_yielded[k - 1].row_offset < chunks_yielded[k].row_offset
        /\ chunk_pc = "done" =>
              \A row \in 0..(chunk_call.height_df - 1) :
                 Cardinality({k \in DOMAIN chunks_yielded :
                                InChunk(chunks_yielded[k], row)}) = 1

\* C17 witness: a table was yielded in three chunks, the last one shorter than the
\* chunk size
C17_Witness ==
    /\ chunk_pc = "done"
    /\ chunk_call.size_rows_chunk >= 2
    /\ Len(chunks_yielded) = 3
    /\ chunks_yielded[2].height = chunk_call.size_rows_chunk
    /\ chunks_yielded[3].height < chunk_call.size_rows_chunk

\* C18: for every table and every chunk size calculate_row_chunk_size returns from a
\* policy (a fixed size or a width-tiered size) the iteration over
\* generate_row_chunks terminates: a loop that was started ends.
C18_ChunksTerminate == (chunk_pc \in {"loop", "yielded"}) ~> (chunk_pc = "done")

\* C19: with a row chunk policy of fixed_size = 0 write_sheet raises ValueError
\* instead of writing the data rows: it does not get to the loop over the chunks.
C19_ZeroFixedSizeRaises ==
    (chunk_pc # "idle" /\ chunk_call.policy.fixed_size = <<0>>) =>
        /\ chunk_exc = "ValueError"
        /\ chunk_pc \notin {"loop", "yielded", "done"}

----------------------------------------------------------------------------
(* Claims about derive_contiguous_ranges, checked under SpecRanges *)

\* the integers start..end of a returned pair
RangeSet(r) == r[1]..r[2]

\* C20: for a strictly increasing sequence S of non-negative integers
\* derive_contiguous_ranges returns inclusive (start, end) pairs that are sorted by
\* start and pairwise disjoint, each a maximal run of consecutive integers of S,
\* and whose expanded union is S exactly; the empty sequence gives the empty list.
C20_ContiguousRanges ==
    rng_call.op = "derive_contiguous_ranges" =>
        LET S == tuple_set(rng_call.sorted_indices)
        IN  /\ \A k \in DOMAIN rng_ret :
                  /\ rng_ret[k][1] <= rng_ret[k][2]
                  /\ RangeSet(rng_ret[k]) \subseteq S
                  /\ rng_ret[k][1] - 1 \notin S
                  /\ rng_ret[k][2] + 1 \notin S
                  /\ k > 1 => rng_ret[k - 1][2] < rng_ret[k][1]
            /\ \A j, k \in DOMAIN rng_ret :
                  j # k => RangeSet(rng_ret[j]) \cap RangeSet(rng_ret[k]) = {}
            /\ UNION {RangeSet(rng_ret[k]) : k \in DOMAIN rng_ret} = S
            /\ rng_call.sorted_indices = <<>> => rng_ret = <<>>

\* C20 witness: a call returned a run of several indices, then a gap, then a single
\* index, as in derive_contiguous_ranges([0, 1, 2, 4, 5, 7])
C20_Witness ==
    /\ rng_call.op = "derive_contiguous_ranges"
    /\ Len(rng_ret) = 3
    /\ rng_ret[1][1] < rng_ret[1][2]
    /\ rng_ret[3][1] = rng_ret[3][2]
    /\ Len(rng_call.sorted_indices) = 6

----------------------------------------------------------------------------
(* Claims about sanitize_sheet_name, checked under SpecSanitize *)

\* C21 as stated: for every input string sanitize_sheet_name returns a non-empty
\* name of at most 31 UTF-16 characters (code units) that holds none of the
\* Excel-illegal characters.
C21_SanitizedNameUtf16 ==
    san_call.op = "sanitize_sheet_name" =>
        /\ san_ret # <<>>
        /\ utf16_len(san_ret) <= N_LEN_EXCEL_SHEET_NAME_MAX
        /\ \A k \in DOMAIN san_ret : san_ret[k] \notin tuple_set(TUP_EXCEL_ILLEGAL)

\* C21 amended: for every input string sanitize_sheet_name returns a non-empty name
\* of at most 31 characters (code points), hence of at most 31 UTF-16 code units
\* when it holds no character outside the Basic Multilingual Plane and of at most
\* 62 otherwise, that holds none of the Excel-illegal characters.
C21_SanitizedNameAmended ==
    san_call.op = "sanitize_sheet_name" =>
        /\ san_ret # <<>>
        /\ Len(san_ret) <= N_LEN_EXCEL_SHEET_NAME_MAX
        /\ utf16_len(san_ret) <= 2 * N_LEN_EXCEL_SHEET_NAME_MAX
        /\ (\A k \in DOMAIN san_ret : san_ret[k] \notin AstralChars)
              => utf16_len(san_ret) <= N_LEN_EXCEL_SHEET_NAME_MAX
        /\ \A k \in DOMAIN san_ret : san_ret[k] \notin tuple_set(TUP_EXCEL_ILLEGAL)

\* C21 witness: a name longer than 31 characters with illegal characters was cut to
\* 31 characters, the illegal ones replaced
C21_Witness ==
    /\ san_call.op = "sanitize_sheet_name"
    /\ Len(san_call.name) > N_LEN_EXCEL_SHEET_NAME_MAX
    /\ \E k \in DOMAIN san_call.name : san_call.name[k] \in tuple_set(TUP_EXCEL_ILLEGAL)
    /\ Len(san_ret) = N_LEN_EXCEL_SHEET_NAME_MAX
    /\ \E k \in DOMAIN san_ret : san_ret[k] = "_"

----------------------------------------------------------------------------
(* Claims about SpecCellFormat.merge, checked under SpecMerge *)

\* C22: for all cell formats a and b and every format field f, a.merge(b).f is b.f
\* when b.f is set (not None) and a.f otherwise.
C22_MergeRightWins ==
    mrg_call.op = "merge" =>
        \A f \in FormatFields :
            /\ mrg_call.other[f] # <<>> => mrg_ret[f] = mrg_call.other[f]
            /\ mrg_call.other[f] = <<>> => mrg_ret[f] = mrg_call.self[f]

\* C22 witness: b sets bold to False over a's True and leaves num_format unset,
\* which a has set
C22_Witness ==
    /\ mrg_call.op = "merge"
    /\ mrg_call.self["bold"] = <<TRUE>> /\ mrg_call.other["bold"] = <<FALSE>>
    /\ mrg_call.self["num_format"] = <<"0">> /\ mrg_call.other["num_format"] = <<>>
    /\ mrg_ret["bold"] = <<FALSE>> /\ mrg_ret["num_format"] = <<"0">>

----------------------------------------------------------------------------
(* Claims about the addons' column overrides, checked under SpecOverrides *)

\* C23: when two addons of one write_sheet call both override the format of the
\* same column, the loop over the addons ends without an exception, the later
\* addon's override is merged on top of the earlier one and a conflict warning
\* naming the column is in the report of the call.
C23_ConflictMergedAndWarned ==
    (ov_pc \in {"done", "raised"} /\ Len(ov_call.addons) = 2) =>
        \A col \in DOMAIN ov_call.addons[1].overrides
                    \cap DOMAIN ov_call.addons[2].overrides :
            /\ ov_pc = "done"
            /\ ov_ret.exc = "none"
            /\ col \in DOMAIN ov_ret.dict_cols_fmt_overrides
            /\ ov_ret.dict_cols_fmt_overrides[col] =
                  fmt_merge(ov_call.addons[1].overrides[col],
                            ov_call.addons[2].overrides[col])
            /\ \E w \in DOMAIN ov_ret.warnings : ov_ret.warnings[w].col = col

----------------------------------------------------------------------------
(* Claims about the autofit widths, checked under SpecAutofit *)

\* clamp(x, lo, hi) for lo <= hi
Clamp(x, lo, hi) == IF x < lo THEN lo ELSE IF x > hi THEN hi ELSE x

\* the largest of the estimates in a list, 0 for none
LargestEstimate(estimates) ==
    IF estimates = <<>> THEN 0
    ELSE CHOOSE e \in tuple_set(estimates) : \A d \in tuple_set(estimates) : d <= e

\* the largest estimate recorded for column k (1-based) from the source(s) the
\* rule names
ObservedMax(k) ==
    LET header == IF k = 1 THEN af_call.args.header_estimates
                  ELSE af_call.args.body_estimates
        body == IF k = 1 THEN af_call.args.body_estimates
                ELSE af_call.args.header_estimates
        rule == af_call.args.rule_autofit_columns
    IN  IF rule = "header" THEN LargestEstimate(header)
        ELSE IF rule = "body" THEN LargestEstimate(body)
        ELSE Max(LargestEstimate(header), LargestEstimate(body))

\* C24 as stated: with autofit enabled the width set for each column is
\* clamp(observed_max + padding, min_width, max_width) with the caller's padding,
\* min_width and max_width (taken for min_width <= max_width).
C24_WidthIsClampOfCallerParameters ==
    (af_call.op = "write_sheet" /\ af_call.args.if_autofit_columns
       /\ af_call.args.width_cell_autofit_min <= af_call.args.width_cell_autofit_max) =>
        \A k \in 1..2 :
            /\ k \in DOMAIN af_widths
            /\ af_widths[k] = Clamp(ObservedMax(k) + af_call.args.width_cell_autofit_padding,
                                    af_call.args.width_cell_autofit_min,
                                    af_call.args.width_cell_autofit_max)

\* C24 amended: with autofit enabled the width set for each column is
\* min(hi, max(lo, observed_max + pad)), where observed_max is the largest estimate
\* recorded from the source(s) the rule names, pad = max(0, padding),
\* lo = max(1, min_width) and hi = min(255, max(lo, max_width)); so the width is in
\* 1..255, and it is clamp(observed_max + padding, min_width, max_width) when
\* padding >= 0 and 1 <= min_width <= max_width <= 255.
C24_WidthIsClampAmended ==
    (af_call.op = "write_sheet" /\ af_call.args.if_autofit_columns) =>
        LET min_width == af_call.args.width_cell_autofit_min
            max_width == af_call.args.width_cell_autofit_max
            padding == af_call.args.width_cell_autofit_padding
            pad == IF padding < 0 THEN 0 ELSE padding
            lo == IF min_width < 1 THEN 1 ELSE min_width
            lo_or_max == IF max_width < lo THEN lo ELSE max_width
            hi == IF lo_or_max > 255 THEN 255 ELSE lo_or_max
        IN  \A k \in 1..2 :
                /\ k \in DOMAIN af_widths
                /\ LET raised == IF ObservedMax(k) + pad < lo THEN lo
                                 ELSE ObservedMax(k) + pad
                   IN  af_widths[k] = IF raised > hi THEN hi ELSE raised
                /\ af_widths[k] \in 1..255
                /\ (padding >= 0 /\ 1 <= min_width /\ min_width <= max_width
                      /\ max_width <= 255) =>
                        af_widths[k] = Clamp(ObservedMax(k) + padding, min_width, max_width)

\* C24 witness: under the rule "all" and with the parameters 8, 60 and 2, the column
\* whose header records 3 and whose body records 400 got 60 and the other one too
C24_Witness ==
    /\ af_call.op = "write_sheet" /\ af_call.args.if_autofit_columns
    /\ af_call.args.rule_autofit_columns = "all"
    /\ af_call.args.width_cell_autofit_min = 8
    /\ af_call.args.width_cell_autofit_max = 60
    /\ af_call.args.width_cell_autofit_padding = 2
    /\ af_call.args.header_estimates = <<3>>
    /\ af_call.args.body_estimates = <<3, 400>>
    /\ af_widths = <<60, 60>>

----------------------------------------------------------------------------
(* Claims about the capability probes, checked under SpecProbe *)

----------------------------------------------------------------------------
(* Termination of the de-duplication loop, checked under SpecNames *)

\* The counters i with at most two digits.  A base of N_LEN_EXCEL_SHEET_NAME_MAX - 3
\* characters leaves room for one digit, so a counter of more digits gives the
\* candidate of its first digit again; a shorter base in this model leaves room
\* for two digits.
BumpHorizon == 99

\* C29: for every requested name and every finite set of sheet names already
\* issued by the writer, _create_unique_sheet_name terminates and returns a name:
\* whenever the bump loop is running, the counter it holds or a later one gives a
\* candidate that is not in the issued set.
C29_BumpLoopFindsFreeName ==
    name_pc = "bump" =>
        \E i \in bump_i..BumpHorizon :
           ~bump_continues(bump_candidate_name(c_base_name, i), existing_sheet_names)

----------------------------------------------------------------------------
(* Claims about run_jobs, checked under SpecJobs *)

\* how often job j occurs in the list l of job ids
Occurrences(l, j) == Cardinality({k \in DOMAIN l : l[k] = j})

\* C26: when run_jobs finishes without being interrupted, every job has been
\* executed once and is recorded in exactly one of jobs_done and jobs_failed, so
\* that num_done + num_failed is the number of jobs, whatever the workers of other
\* jobs did and however the threads interleave.
C26_EveryJobRunAndRecordedOnce ==
    job_pc \in {"returned", "raised"} =>
        /\ \A j \in 1..job_call.n_total :
              /\ job_runs[j] = 1
              /\ Occurrences(l_done, j) + Occurrences(l_failed, j) = 1
              /\ Occurrences(l_done, j) = 1 <=> job_call.outcomes[j] = "returns"
        /\ n_done = Len(l_done)
        /\ n_done + Len(l_failed) = job_call.n_total

\* C26 witness: with two worker threads the first of three jobs failed and the
\* other two were done
C26_Witness ==
    /\ job_pc \in {"returned", "raised"}
    /\ job_call.n_total = 3 /\ job_call.max_workers = 2
    /\ job_call.outcomes[1] = "raises"
    /\ l_failed = <<1>> /\ Len(l_done) = 2

----------------------------------------------------------------------------
(* Claims about copy_tree, checked under SpecCopy *)

\* C28: copy_tree called with if_dry_run=True makes no filesystem changes: no
\* file, directory or symlink is created or modified at or under the
\* destination, for every source tree, destination and option combination.
C28_DryRunChangesNothing ==
    (cp_pc # "idle" /\ cp_call.if_dry_run) => cp_fs = cp_fs0

----------------------------------------------------------------------------
(* The two planners compared, checked under SpecPlanners *)

\* C30: the two sheet-slice planners are interchangeable: for every input
\* (height_df, width_df, height_header, sheet_name), util.generate_sheet_slices and
\* service.sheet_split.generate_sheet_slices return identical slice lists (same
\* ranges, names and order) and record identical warnings, or both raise ValueError.
C30_PlannersInterchangeable ==
    slice_pc = "both done" =>
        /\ slice_ret = svc_ret
        /\ report_warnings = svc_warnings

====
